---- MODULE Spec2Model ----
(***************************************************************************)
(* Taut: interception proxy (core/main/main.cjs), plugin lifecycle          *)
(* (core/main/main.cjs, core/renderer/client.ts) and component patch chain *)
(* (core/renderer/webpack.tsx).                                            *)
(*                                                                         *)
(* Each subsystem has its own specification over the shared variables:     *)
(*   SpecProxy   - Module._load hook, wrap() and its Proxy traps           *)
(*   SpecManager - the renderer's PluginManager under arbitrary calls      *)
(*   SpecStart   - the start-plugins handler over a drawn plugin directory *)
(*   SpecConfig  - start-plugins, config saves and the config watcher      *)
(*   SpecPatch   - patchComponent / unpatch / React.createElement         *)
(*   SpecChain   - patchComponent / unpatch alone, over longer sequences   *)
(*   SpecMenu    - Menu.setApplicationMenu through the wrapped module       *)
(*   SpecSender  - several windows, start-plugins and the global BROWSER   *)
(*   SpecWatch   - start-plugins, page reloads and the directory watchers  *)
(*   SpecSkip    - start-plugins over plugin files that fail               *)
(*   SpecLoaded  - the proxy traps once electron.BrowserWindow is held     *)
(*   SpecFind    - findExport / findByProps / findComponent                *)
(*   SpecWindow  - new BrowserWindow(options) through the wrapped module   *)
(*   SpecStop    - start() / stop() of TautPlugin and the bundled plugins  *)
(*   SpecInstall - cli/patch.js: install() over the config directory       *)
(*   SpecEqual   - deepEqual over drawn JSON values                        *)
(*   SpecResources - cli/patch.js: install() / uninstall() over the        *)
(*                 resources directory, with failing steps                 *)
(***************************************************************************)
EXTENDS Integers, Sequences, FiniteSets, TLC

VARIABLES
    \* main process: interception proxy
    heap,        \* the foreign object graph (electron's exports), by object id
    proxies,     \* every Proxy created by wrap(): <<[target, log], ...>>, id = index
    lastOp,      \* the last operation performed through a wrapper, with its outcome
    directHeap,  \* the heap the same operation leaves when done on the unwrapped target
    BROWSER,     \* main.cjs: let BROWSER
    nOps,        \* number of operations performed so far
    \* renderer: PluginManager
    plugins,     \* client.ts: PluginManager.plugins, name :> [PluginClass, instance, config]
    detached,    \* started instances that no record of the manager refers to any more
    lastCall,    \* the last PluginManager call and what it did
    currentUserCss,  \* preload.cjs: let currentUserCss
    \* main process: plugin lifecycle
    files,       \* the two plugin directories: {[dir, file, kind], ...}
    configFile,  \* the contents of config.jsonc
    config,      \* main.cjs: let config
    esbuildInitialized,  \* main.cjs: let esbuildInitialized
    starts,      \* invocations of the 'taut:start-plugins' handler and where each stands
    watchers,    \* how many listeners each watched path has
    handlers,    \* running invocations of the config watcher's callback
    sent,        \* messages sent with webContents.send and not yet received
    nSaves,      \* number of config saves so far
    lastSave,    \* the loaded config at the last save and the messages sent since
    \* renderer: component patch chain
    elementReplacements,  \* webpack.tsx: const elementReplacements
    patchLog,    \* the patchComponent / unpatch calls made so far
    lastCreate,  \* the last React.createElement call and what it instantiated
    \* main process: plugin directory watchers
    events,      \* invocations of watchPluginDir's callback and where each stands
    \* renderer: export search
    webpackCache,  \* webpack.tsx: what allExports() returns, <<[exp, children], ...>>
    lastFind,    \* the last findExport / findByProps / findComponent call and its outcome
    \* main process: window construction
    originalPreloadContents,  \* main.cjs: let originalPreloadContents
    lastWindow,  \* the last new BrowserWindow(options): options passed and options in effect
    windows,     \* the windows constructed: what the redirect did for each, in order, and its page
    current,     \* which of them BROWSER is, 0 for none of them
    \* renderer: one plugin instance and the page it works on
    instance,    \* the fields of the instance and what it still awaits
    page,        \* the sender buttons, the injected styles and the tooltip in the document
    lastStop,    \* the last stop() call: instance and page before it, and whether it threw
    \* installer: the config directory
    configDir,   \* helpers.js: configDir, what each of its entries holds
    oldConfigDir,  \* ~/Library/Preferences/taut, the config directory of older versions
    lastInstall, \* the last install(): the directories before it and the config directory after
    \* main process: config comparison
    lastEqual,   \* the last deepEqual(left, right) call and its result
    \* installer: the resources directory of the Slack installation
    resources,   \* what app.asar, _app.asar, their .unpacked and app.asar.tmp hold
    lastRun      \* the last two install() / uninstall() runs: directory before, outcome

proxyVars == <<heap, proxies, lastOp, directHeap, BROWSER, nOps>>
managerVars == <<plugins, detached, lastCall, currentUserCss>>
mainVars == <<files, configFile, config, esbuildInitialized, starts, watchers,
              handlers, sent, nSaves, lastSave>>
patchVars == <<elementReplacements, patchLog, lastCreate>>
searchVars == <<webpackCache, lastFind>>
windowVars == <<originalPreloadContents, lastWindow, windows, current>>
stopVars == <<instance, page, lastStop>>
installVars == <<configDir, oldConfigDir, lastInstall>>
resourceVars == <<resources, lastRun>>
lateVars == <<lastEqual, resourceVars>>
earlyVars == <<events, searchVars, windowVars, stopVars, installVars>>
auxVars == <<earlyVars, lateVars>>
(* What each of these parts leaves alone of the others *)
watchRest == <<searchVars, windowVars, stopVars, installVars, lateVars>>
searchRest == <<events, windowVars, stopVars, installVars, lateVars>>
windowRest == <<events, searchVars, stopVars, installVars, lateVars>>
stopRest == <<events, searchVars, windowVars, installVars, lateVars>>
installRest == <<events, searchVars, windowVars, stopVars, lateVars>>
vars == <<heap, proxies, lastOp, directHeap, BROWSER, nOps,
          plugins, detached, lastCall, currentUserCss,
          files, configFile, config, esbuildInitialized, starts, watchers,
          handlers, sent, nSaves, lastSave,
          elementReplacements, patchLog, lastCreate,
          events, webpackCache, lastFind, originalPreloadContents, lastWindow,
          windows, current,
          instance, page, lastStop,
          configDir, oldConfigDir, lastInstall,
          lastEqual, resources, lastRun>>

-----------------------------------------------------------------------------
(* Bounds *)
MaxProxies == 3
MaxOps == 4
MaxStarts == 1
MaxSaves == 1
MaxPatchOps == 3
MaxChainOps == 4
MaxReloads == 1
MaxEvents == 2
MaxModules == 2
MaxWindows == 2
MaxStops == 2
MaxInstalls == 2
MaxMenuOps == 5
MaxMenuProxies == 4
MaxJsonLen == 2
MaxRuns == 3

-----------------------------------------------------------------------------
(* JSON values (config.jsonc).  An object keeps its members in insertion   *)
(* order, as a JavaScript object does.                                     *)
J(j, n, items) == [j |-> j, n |-> n, items |-> items]
JNull == J("null", 0, <<>>)
JUndefined == J("undefined", 0, <<>>)
JBool(b) == J("boolean", IF b THEN 1 ELSE 0, <<>>)
JNum(n) == J("number", n, <<>>)
Member(key, val) == [key |-> key, val |-> val]
JArr(vals) == J("array", 0, [i \in DOMAIN vals |-> Member("", vals[i])])
JObj(members) == J("object", 0, members)

(* Object.keys(o), in insertion order *)
ObjectKeys(o) == [i \in DOMAIN o.items |-> o.items[i].key]
(* Object.prototype.hasOwnProperty.call(o, key) *)
HasOwn(o, key) == o.j = "object" /\ \E i \in DOMAIN o.items : o.items[i].key = key
(* o[key] *)
JGet(o, key) ==
    IF HasOwn(o, key)
    THEN o.items[CHOOSE i \in DOMAIN o.items : o.items[i].key = key].val
    ELSE JUndefined
(* if (v) ... *)
Truthy(v) ==
    \/ v.j \in {"object", "array"}
    \/ (v.j = "boolean" /\ v.n = 1)
    \/ (v.j = "number" /\ v.n # 0)
(* a || b *)
Or(a, b) == IF Truthy(a) THEN a ELSE b
(* typeof v *)
TypeOf(v) == IF v.j \in {"object", "array", "null"} THEN "object" ELSE v.j

(* deepEqual without its closing comparison of the key counts *)
RECURSIVE deepEqualLeftKeysOnly(_, _)
deepEqualLeftKeysOnly(left, right) ==
    IF left.j \notin {"object", "array"} THEN left = right
    ELSE IF left.j # right.j THEN FALSE
    ELSE IF left.j = "array"
         THEN /\ Len(left.items) = Len(right.items)
              /\ \A i \in DOMAIN left.items :
                     deepEqualLeftKeysOnly(left.items[i].val, right.items[i].val)
    ELSE \A i \in DOMAIN left.items :
               /\ HasOwn(right, left.items[i].key)
               /\ deepEqualLeftKeysOnly(left.items[i].val, JGet(right, left.items[i].key))

(* deepEqual that compares the members of two objects in their order *)
RECURSIVE deepEqualOrdered(_, _)
deepEqualOrdered(left, right) ==
    IF left.j \notin {"object", "array"} THEN left = right
    ELSE IF left.j # right.j THEN FALSE
    ELSE /\ Len(left.items) = Len(right.items)
         /\ \A i \in DOMAIN left.items :
               /\ left.items[i].key = right.items[i].key
               /\ deepEqualOrdered(left.items[i].val, right.items[i].val)

(* main.cjs: deepEqual.  Two objects read from two parses are never the    *)
(* same object, so left === right can only hold between primitives.        *)
RECURSIVE deepEqual(_, _)
deepEqual(left, right) ==
    IF left.j \notin {"object", "array"} /\ left = right THEN TRUE
    ELSE IF left.j \in {"null", "undefined"} \/ right.j \in {"null", "undefined"} THEN FALSE
    ELSE IF TypeOf(left) # TypeOf(right) THEN FALSE
    ELSE IF TypeOf(left) # "object" THEN left = right
    ELSE IF left.j = "array" /\ right.j = "array"
         THEN /\ Len(left.items) = Len(right.items)
              /\ \A i \in DOMAIN left.items : deepEqual(left.items[i].val, right.items[i].val)
    ELSE IF (left.j = "array") # (right.j = "array") THEN FALSE
    ELSE /\ \A i \in DOMAIN left.items :
               /\ HasOwn(right, left.items[i].key)
               /\ deepEqual(left.items[i].val, JGet(right, left.items[i].key))
         /\ Len(ObjectKeys(right)) = Len(left.items)

(* { enabled: false } *)
CfgOff == JObj(<<Member("enabled", JBool(FALSE))>>)
(* { plugins: {} } *)
DefaultConfig == JObj(<<Member("plugins", JObj(<<>>))>>)

(* Plugin configs and config files in use *)
CfgOn == JObj(<<Member("enabled", JBool(TRUE))>>)
CfgOnOpt == JObj(<<Member("enabled", JBool(TRUE)), Member("opt", JArr(<<JNum(1)>>))>>)
CfgOptOn == JObj(<<Member("opt", JArr(<<JNum(1)>>)), Member("enabled", JBool(TRUE))>>)
Names == {"foo", "bar"}
Entry(name, cfg) == IF cfg = JUndefined THEN <<>> ELSE <<Member(name, cfg)>>
TautConfig(fooCfg, barCfg) ==
    JObj(<<Member("plugins", JObj(Entry("foo", fooCfg) \o Entry("bar", barCfg)))>>)
ConfigFiles ==
    {TautConfig(f, b) : f \in {JUndefined, CfgOff, CfgOn, CfgOnOpt, CfgOptOn},
                        b \in {JUndefined, CfgOn}}

-----------------------------------------------------------------------------
(* The state of each part of the program right after it has been loaded    *)
NoCall == [op |-> "none", name |-> "", threw |-> FALSE, stopped |-> FALSE, started |-> FALSE]
NoWatchers == [config |-> 0, userCss |-> 0, plugins |-> 0, userPlugins |-> 0]
NoSave == [valid |-> FALSE, config |-> DefaultConfig, msgs |-> <<>>]
NoCreate == [type |-> <<>>, props |-> "null", instantiated |-> <<>>, propsAfter |-> "null",
             invoked |-> <<>>, displayName |-> "", at |-> 0]

InitManager ==
    /\ plugins = <<>>
    /\ detached = <<>>
    /\ lastCall = NoCall
    /\ currentUserCss = ""

InitMain ==
    /\ config = DefaultConfig
    /\ esbuildInitialized = FALSE
    /\ starts = <<>>
    /\ watchers = NoWatchers
    /\ handlers = 0
    /\ sent = <<>>
    /\ nSaves = 0
    /\ lastSave = NoSave

NoFiles ==
    /\ files = {}
    /\ configFile = DefaultConfig

InitPatch ==
    /\ elementReplacements = <<>>
    /\ patchLog = <<>>
    /\ lastCreate = NoCreate


NoFind == [fn |-> "none", filter |-> <<>>, all |-> FALSE, k |-> "null", vs |-> <<>>]

NoEvents == events = <<>>
NoSearch ==
    /\ webpackCache = <<>>
    /\ lastFind = NoFind

(* Options of a BrowserWindow: what kind of value was passed and, for an   *)
(* object, its width and its webPreferences with their devTools, preload   *)
(* and contextIsolation ("unset" or "" where the property is absent)       *)
Options(kind, width, webPreferences, devTools, preload, contextIsolation) ==
    [kind |-> kind, width |-> width, webPreferences |-> webPreferences,
     devTools |-> devTools, preload |-> preload, contextIsolation |-> contextIsolation]
EmptyOptions(kind) == Options(kind, "unset", FALSE, "unset", "", "unset")
NoWindowYet == [passed |-> EmptyOptions("undefined"), effective |-> EmptyOptions("undefined"),
                constructed |-> FALSE, threw |-> FALSE]
NoWindow ==
    /\ originalPreloadContents = "null"
    /\ lastWindow = NoWindowYet
    /\ windows = <<>>
    /\ current = 0

(* A plugin instance as its constructor leaves it, on a page with or       *)
(* without sender buttons. awaiting holds the promises the instance has    *)
(* a continuation on: "init", "render", "hover"                            *)
PluginInstance(cls, apiToken, cached) ==
    [cls |-> cls, apiToken |-> apiToken, cached |-> cached,
     started |-> FALSE, stopped |-> FALSE,
     observer |-> FALSE, stylesElement |-> FALSE, currentTooltip |-> FALSE,
     isLoadingTooltip |-> FALSE, trustLevels |-> FALSE, awaiting |-> {}]
Page(buttons) ==
    [buttons |-> buttons, marked |-> FALSE, decorated |-> FALSE, listeners |-> FALSE,
     styles |-> FALSE, tooltip |-> FALSE]
(* The fields of an instance, without the record of the calls made on it *)
Fields(i) ==
    [observer |-> i.observer, stylesElement |-> i.stylesElement,
     currentTooltip |-> i.currentTooltip, isLoadingTooltip |-> i.isLoadingTooltip,
     trustLevels |-> i.trustLevels]
Observed(i, p) == [instance |-> Fields(i), page |-> p]
NoStopYet ==
    [n |-> 0, on |-> "none", threw |-> FALSE,
     before |-> Observed(PluginInstance("TautPlugin", FALSE, FALSE), Page(FALSE)),
     after |-> Observed(PluginInstance("TautPlugin", FALSE, FALSE), Page(FALSE))]
NoStop ==
    /\ instance = PluginInstance("TautPlugin", FALSE, FALSE)
    /\ page = Page(FALSE)
    /\ lastStop = NoStopYet

(* A config directory: whether it exists and what its entries hold,       *)
(* "absent" for an entry that does not exist                               *)
Dir(exists, core, builtins, userPlugins, configJsonc, userCss) ==
    [exists |-> exists, core |-> core, plugins |-> builtins, userPlugins |-> userPlugins,
     config |-> configJsonc, userCss |-> userCss]
NoDir == Dir(FALSE, "absent", "absent", "absent", "absent", "absent")
NoInstallYet == [n |-> 0, version |-> "", before |-> NoDir, old |-> NoDir, after |-> NoDir]
NoInstall ==
    /\ configDir = NoDir
    /\ oldConfigDir = NoDir
    /\ lastInstall = NoInstallYet

(* No comparison made yet *)
NoEqual == [called |-> FALSE, left |-> JNull, right |-> JNull, result |-> FALSE]
(* A resources directory: what each of its five entries holds, "absent"  *)
(* for an entry that does not exist. app.asar is Slack's own archive       *)
(* ("original"), a shim of this PATCH_VERSION ("shim") or of an older one  *)
(* ("oldShim")                                                            *)
Resources(appAsar, backupAsar, unpacked, unpackedBackup, appAsarTmp) ==
    [appAsar |-> appAsar, backupAsar |-> backupAsar, unpacked |-> unpacked,
     unpackedBackup |-> unpackedBackup, appAsarTmp |-> appAsarTmp]
Fresh(unpacked) == Resources("original", "absent", unpacked, "absent", "absent")
NoRun == [op |-> "none", threw |-> FALSE, failed |-> "none", before |-> Fresh("absent")]
NoRunYet == [n |-> 0, last |-> NoRun, previous |-> NoRun]
NoResources ==
    /\ resources = Fresh("absent")
    /\ lastRun = NoRunYet
NoLate ==
    /\ lastEqual = NoEqual
    /\ NoResources

InitAux ==
    /\ NoLate
    /\ NoEvents
    /\ NoSearch
    /\ NoWindow
    /\ NoStop
    /\ NoInstall
-----------------------------------------------------------------------------
(* JavaScript values.  Every value is a record of the same shape.          *)
V(t, i, s) == [t |-> t, i |-> i, s |-> s]
Undef == V("undef", 0, "")
Prim(s) == V("prim", 0, s)
Bool(b) == V("bool", 0, IF b THEN "true" ELSE "false")
Obj(o) == V("obj", 0, o)
Px(i) == V("proxy", i, "")
ForeignError == V("err", 0, "ForeignError")   \* an exception thrown by foreign code
TypeError == V("err", 0, "TypeError")         \* raised by the engine itself
HandlerError == V("err", 0, "Failed to create BrowserWindow")

Ret(v) == [k |-> "ret", v |-> v]
Throw(e) == [k |-> "throw", v |-> e]

(* Object ids of the foreign graph *)
oElectron == "electron"
oBrowserWindow == "BrowserWindow"
oMenu == "Menu"
oPrototype == "BrowserWindow.prototype"
oGetAllWindows == "getAllWindows"
oSetApplicationMenu == "setApplicationMenu"
oInstance == "window"
oSlackWindow == "SlackWindow"
oFs == "fs"
oFunctionPrototype == "Function.prototype"
oCall == "Function.prototype.call"
ObjIds == {oElectron, oBrowserWindow, oMenu, oPrototype, oGetAllWindows,
           oSetApplicationMenu, oInstance, oSlackWindow, oFs,
           oFunctionPrototype, oCall}

(* Property keys: strings and symbols *)
K(name) == [sym |-> FALSE, name |-> name]
Sym(desc) == [sym |-> TRUE, name |-> desc]
Keys == {K("BrowserWindow"), K("getAllWindows"), K("prototype"), K("Menu"),
         K("setApplicationMenu"), K("slot"), K("<constructor>")}
WritableKeys == {K("slot"), K("<constructor>")}
(* Keys that exist in the graph but that SpecProxy's foreign code does not *)
(* name: call is inherited by every function, applicationMenu stands for   *)
(* the menu Electron has installed                                         *)
InheritedKeys == {K("call")}
InternalKeys == {K("applicationMenu")}
Behaviours == {"ret", "throw", "mut"}

NoProp == [val |-> Undef, own |-> FALSE, frozen |-> FALSE]
Data(v) == [val |-> v, own |-> TRUE, frozen |-> FALSE]
Frozen(v) == [val |-> v, own |-> TRUE, frozen |-> TRUE]

Props(o) ==
    [k \in Keys \cup InheritedKeys \cup InternalKeys |->
        CASE o = oElectron /\ k = K("BrowserWindow") -> Data(Obj(oBrowserWindow))
          [] o = oElectron /\ k = K("Menu") -> Data(Obj(oMenu))
          [] o = oBrowserWindow /\ k = K("prototype") -> Frozen(Obj(oPrototype))
          [] o = oBrowserWindow /\ k = K("getAllWindows") -> Data(Obj(oGetAllWindows))
          [] o = oMenu /\ k = K("setApplicationMenu") -> Data(Obj(oSetApplicationMenu))
          [] o = oSlackWindow /\ k = K("prototype") -> Frozen(Obj(oInstance))
          [] o = oFunctionPrototype /\ k = K("call") -> Data(Obj(oCall))
          [] OTHER -> NoProp]

Callables == {oBrowserWindow, oGetAllWindows, oSetApplicationMenu, oSlackWindow, oCall}

(* The heap variable holds what can differ between states: how the foreign *)
(* functions behave, the prototype SlackWindow was given by "extends", and *)
(* the properties written so far (<<object, key>> :> value).               *)
PropOf(h, o, k) ==
    IF <<o, k>> \in DOMAIN h.written THEN Data(h.written[<<o, k>>]) ELSE Props(o)[k]
ProtoOf(h, o) ==
    IF o = oSlackWindow THEN h.proto
    ELSE IF o \in Callables THEN Obj(oFunctionPrototype)
    ELSE Undef
BehOf(h, o) == IF o \in DOMAIN h.beh THEN h.beh[o] ELSE "ret"
WriteProp(h, o, k, v) ==
    [h EXCEPT !.written = [x \in (DOMAIN h.written) \cup {<<o, k>>} |->
                              IF x = <<o, k>> THEN v ELSE h.written[x]]]

-----------------------------------------------------------------------------
(* main.cjs: const redirected = new Map(), with its two entries *)
PathBrowserWindowCtor == "<electron>.BrowserWindow.<constructor>"
PathSetApplicationMenu == "<electron>.Menu.setApplicationMenu"
redirected ==
    (PathBrowserWindowCtor :> "BrowserWindowHandler")
    @@ (PathSetApplicationMenu :> "setApplicationMenuHandler")

(* main.cjs: const modules = [/^electron.*$/] *)
(* "electron-x" stands for a third-party module whose name begins with    *)
(* electron and whose export is a class extending electron.BrowserWindow  *)
Requests == {"electron", "electron-x", "fs"}
modulesMatch(request) ==
    Len(request) >= Len("electron") /\ SubSeq(request, 1, Len("electron")) = "electron"

(* oldLoad: the loader installed before the hook *)
oldLoad(request) ==
    CASE request = "electron" -> Obj(oElectron)
      [] request = "electron-x" -> Obj(oSlackWindow)
      [] OTHER -> Obj(oFs)

-----------------------------------------------------------------------------
(* Language semantics used by the traps *)

Wrappable(v) == v.t \in {"obj", "proxy"}

RECURSIVE GetPrototypeOf(_, _, _)
GetPrototypeOf(px, h, v) ==
    IF v.t = "proxy" THEN GetPrototypeOf(px, h, px[v.i].target)
    ELSE IF v.t = "obj" THEN ProtoOf(h, v.s)
    ELSE Undef

(* Reflect.has(v, PROXIED): only a wrapper's has trap answers true; an     *)
(* ordinary object has it only through its prototype chain.                *)
RECURSIVE HasProxied(_, _, _)
HasProxied(px, h, v) ==
    IF v.t = "proxy" THEN TRUE
    ELSE IF v.t = "obj" THEN HasProxied(px, h, ProtoOf(h, v.s))
    ELSE FALSE

(* v[PROXIED] *)
RECURSIVE GetProxied(_, _, _)
GetProxied(px, h, v) ==
    IF v.t = "proxy" THEN px[v.i].target
    ELSE IF v.t = "obj" THEN GetProxied(px, h, ProtoOf(h, v.s))
    ELSE Undef

isProxied(px, h, val) ==
    IF ~Wrappable(val) THEN FALSE
    ELSE LET prototype == GetPrototypeOf(px, h, val)
         IN  HasProxied(px, h, val)
             /\ ~(prototype # Undef /\ HasProxied(px, h, prototype))

unproxy(px, h, val) ==
    IF isProxied(px, h, val) THEN GetProxied(px, h, val) ELSE val

prop(p) == IF p.sym THEN "Symbol(" \o p.name \o ")" ELSE p.name

(* Reflect.getOwnPropertyDescriptor: a Proxy without that trap forwards    *)
RECURSIVE OwnDesc(_, _, _, _)
OwnDesc(px, h, v, key) ==
    IF v.t = "proxy" THEN OwnDesc(px, h, px[v.i].target, key)
    ELSE IF v.t = "obj" THEN PropOf(h, v.s, key)
    ELSE NoProp

(* The ordinary object behind a chain of Proxies (operations without a    *)
(* trap, such as defineProperty, are forwarded to it)                      *)
RECURSIVE Underlying(_, _)
Underlying(px, v) == IF v.t = "proxy" THEN Underlying(px, px[v.i].target) ELSE v

(* typeof v === 'function' *)
RECURSIVE IsCallable(_, _, _)
IsCallable(px, h, v) ==
    IF v.t = "proxy" THEN IsCallable(px, h, px[v.i].target)
    ELSE IF v.t = "obj" THEN (v.s \in Callables)
    ELSE FALSE

-----------------------------------------------------------------------------
(* wrap(obj, log) and the traps of the Proxy it returns.  Operators thread *)
(* the proxy table px and the heap h and return them with the outcome and  *)
(* the set of redirect handlers that were invoked.                         *)

Res(px, h, out, fired) == [px |-> px, h |-> h, out |-> out, fired |-> fired]

wrap(px, obj, log) ==
    IF ~Wrappable(obj) THEN [px |-> px, val |-> obj]
    ELSE [px |-> Append(px, [target |-> obj, log |-> log]), val |-> Px(Len(px) + 1)]

RECURSIVE Get(_, _, _, _, _)
RECURSIVE Set(_, _, _, _, _, _)
RECURSIVE Construct(_, _, _, _)

RECURSIVE Apply(_, _, _, _, _)

(* Behaviour of the foreign functions when called / constructed directly.  *)
(* Function.prototype.call invokes its this value, here with an undefined  *)
(* this and the one argument; a function with the "menu" behaviour         *)
(* installs its argument as the application menu.                          *)
RawApply(px, h, f, thisArg, arg) ==
    CASE f = oCall -> Apply(px, h, thisArg, Undef, arg)
      [] BehOf(h, f) = "menu" ->
            Res(px, WriteProp(h, oMenu, K("applicationMenu"), arg), Ret(Undef), {})
      [] BehOf(h, f) = "throw" -> Res(px, h, Throw(ForeignError), {})
      [] BehOf(h, f) = "mut" /\ thisArg.t = "obj" ->
            Res(px, WriteProp(h, thisArg.s, K("slot"), arg), Ret(thisArg), {})
      [] BehOf(h, f) = "mut" /\ thisArg.t = "proxy" ->
            Res(px, Set(px, h, thisArg, K("slot"), arg, thisArg).h, Ret(thisArg), {})
      [] BehOf(h, f) = "mut" /\ thisArg.t \notin {"obj", "proxy"} -> Res(px, h, Ret(thisArg), {})
      [] OTHER -> Res(px, h, Ret(Prim("result")), {})

RawConstruct(px, h, f, arg) ==
    CASE BehOf(h, f) = "throw" -> Res(px, h, Throw(ForeignError), {})
      [] BehOf(h, f) = "mut" ->
            Res(px, WriteProp(h, oInstance, K("slot"), arg), Ret(Obj(oInstance)), {})
      [] OTHER -> Res(px, h, Ret(Obj(oInstance)), {})

(* get(target, p, receiver) *)
TrapGet(px, h, w, p, receiver) ==
    LET target == px[w].target
        newLog == px[w].log \o "." \o prop(p)
        r == Get(px, h, target, p, unproxy(px, h, receiver))
        desc == OwnDesc(px, h, target, p)
    IN  IF desc.own /\ desc.frozen THEN r
        ELSE wrap(r.px, r.val, newLog)

(* Reflect.get(v, p, receiver) *)
Get(px, h, v, p, receiver) ==
    IF v.t = "proxy" THEN TrapGet(px, h, v.i, p, receiver)
    ELSE IF v.t = "obj" THEN
        IF PropOf(h, v.s, p).own THEN [px |-> px, val |-> PropOf(h, v.s, p).val]
        ELSE Get(px, h, ProtoOf(h, v.s), p, receiver)
    ELSE [px |-> px, val |-> Undef]

(* set(target, p, newValue, receiver) *)
TrapSet(px, h, w, p, newValue, receiver) ==
    Set(px, h, px[w].target, p, newValue, unproxy(px, h, receiver))

(* Reflect.set(v, p, newValue, receiver) on data properties *)
Set(px, h, v, p, newValue, receiver) ==
    IF v.t = "proxy" THEN TrapSet(px, h, v.i, p, newValue, receiver)
    ELSE IF v.t = "obj" /\ PropOf(h, v.s, p).own /\ PropOf(h, v.s, p).frozen
        THEN Res(px, h, Ret(Bool(FALSE)), {})
    ELSE IF receiver.t = "obj"
        THEN Res(px, WriteProp(h, receiver.s, p, newValue), Ret(Bool(TRUE)), {})
    ELSE IF receiver.t = "proxy" /\ Underlying(px, receiver).t = "obj"
        THEN Res(px, WriteProp(h, Underlying(px, receiver).s, p, newValue),
                 Ret(Bool(TRUE)), {})
    ELSE Res(px, h, Ret(Bool(FALSE)), {})

(* One handler invocation: which handler ran, from which trap of which wrapper *)
Fired(handler, op, log) == [handler |-> handler, op |-> op, log |-> log]

(* redirected.set('<electron>.Menu.setApplicationMenu', (target, thisArg, argArray) => {}) *)
HandlerSetApplicationMenu(px, h) == Res(px, h, Ret(Undef), {})

(* redirected.set('<electron>.BrowserWindow.<constructor>',                *)
(*                (target, [options], newTarget) => { ... })               *)
(* iterable: whether the second argument can be destructured as [options]  *)
HandlerBrowserWindow(px, h, target, iterable, arg) ==
    IF ~iterable THEN Res(px, h, Throw(TypeError), {})
    ELSE Construct(px, h, target, arg)

RunHandler(handler, px, h, target, iterable, arg) ==
    IF handler = "BrowserWindowHandler"
    THEN HandlerBrowserWindow(px, h, target, iterable, arg)
    ELSE HandlerSetApplicationMenu(px, h)

(* apply trap that forwards thisArg without unproxy() *)
TrapApplyKeepsThis(px, h, w, thisArg, arg) ==
    LET log == px[w].log
    IN  IF log \in DOMAIN redirected
        THEN LET r == RunHandler(redirected[log], px, h, px[w].target, FALSE, arg)
             IN  Res(r.px, r.h, r.out, r.fired \cup {Fired(redirected[log], "apply", log)})
        ELSE Apply(px, h, px[w].target, thisArg, arg)

(* apply(target, thisArg, argArray) *)
TrapApply(px, h, w, thisArg, arg) ==
    LET log == px[w].log
        normalizedThis == unproxy(px, h, thisArg)
    IN  IF log \in DOMAIN redirected
        THEN LET r == RunHandler(redirected[log], px, h, px[w].target, FALSE, arg)
             IN  Res(r.px, r.h, r.out, r.fired \cup {Fired(redirected[log], "apply", log)})
        ELSE Apply(px, h, px[w].target, normalizedThis, arg)

(* Reflect.apply(f, thisArg, [arg]) *)
Apply(px, h, f, thisArg, arg) ==
    IF f.t = "proxy" THEN TrapApply(px, h, f.i, thisArg, arg)
    ELSE IF f.t = "obj" /\ (f.s \in Callables) THEN RawApply(px, h, f.s, thisArg, arg)
    ELSE Res(px, h, Throw(TypeError), {})

(* construct trap that looks the handler up under log, without ".<constructor>" *)
TrapConstructLooksUpLog(px, h, w, arg) ==
    LET log == px[w].log
        r == IF log \in DOMAIN redirected
             THEN LET hr == RunHandler(redirected[log], px, h, px[w].target, TRUE, arg)
                  IN  Res(hr.px, hr.h, hr.out,
                          hr.fired \cup {Fired(redirected[log], "construct", log)})
             ELSE Construct(px, h, px[w].target, arg)
    IN  IF r.out.k = "throw" THEN Res(r.px, r.h, Ret(Undef), r.fired) ELSE r

(* construct(target, argArray, newTarget): what the trap itself returns *)
TrapConstruct(px, h, w, arg) ==
    LET log == px[w].log
        constructorLog == log \o ".<constructor>"
        r == IF constructorLog \in DOMAIN redirected
             THEN LET hr == RunHandler(redirected[constructorLog], px, h, px[w].target, TRUE, arg)
                  IN  Res(hr.px, hr.h, hr.out,
                          hr.fired \cup {Fired(redirected[constructorLog], "construct", log)})
             ELSE Construct(px, h, px[w].target, arg)
    IN  IF r.out.k = "throw"
        THEN Res(r.px, r.h, Ret(Undef), r.fired)   \* catch (err) { console.warn(...) }
        ELSE r

(* Reflect.construct(f, [arg]): [[Construct]] of a Proxy throws a TypeError *)
(* when its trap returns something that is not an object                   *)
Construct(px, h, f, arg) ==
    IF f.t = "proxy" THEN
        LET r == TrapConstruct(px, h, f.i, arg)
        IN  IF r.out.k = "ret" /\ ~Wrappable(r.out.v)
            THEN Res(r.px, r.h, Throw(TypeError), r.fired)
            ELSE r
    ELSE IF f.t = "obj" /\ (f.s \in Callables) THEN RawConstruct(px, h, f.s, arg)
    ELSE Res(px, h, Throw(TypeError), {})

(* a hook that wraps whatever the previous loader returns *)
_loadWrapsEvery(px, request) ==
    wrap(px, oldLoad(request), "<" \o request \o ">")

(* function _load(request, parent, isMain) *)
_load(px, request) ==
    LET exports == oldLoad(request)
    IN  IF modulesMatch(request) THEN wrap(px, exports, "<" \o request \o ">")
        ELSE [px |-> px, val |-> exports]

-----------------------------------------------------------------------------
(* The proxy engine as a state machine: foreign code loads the module and  *)
(* operates on the wrappers it obtains.                                    *)

NoOp == [op |-> "none", log |-> "", lookup |-> "", wrapArg |-> Undef,
         via |-> Ret(Undef), direct |-> Ret(Undef), fired |-> {}]

InitHeap(beh) == [beh |-> beh, proto |-> Undef, written |-> <<>>]

InitProxy ==
    /\ \E b1 \in {"ret", "throw"}, b2 \in {"mut", "throw"} :
          heap = InitHeap((oBrowserWindow :> b1) @@ (oGetAllWindows :> b2))
    /\ proxies = <<>>
    /\ lastOp = NoOp
    /\ directHeap = heap
    /\ BROWSER = Undef
    /\ nOps = 0
    /\ InitManager
    /\ InitMain
    /\ NoFiles
    /\ InitPatch
    /\ InitAux

Wrappers == 1..Len(proxies)

(* Values foreign code passes as arguments, receivers and stored values *)
TheArg == Prim("arg")
StoredValues == {TheArg, Obj(oGetAllWindows)} \cup {Px(w) : w \in Wrappers}
ThisValues == {Undef} \cup {Px(w) : w \in Wrappers}

(* BROWSER = Reflect.construct(target, [options], newTarget) in the handler *)
NewBrowser(r, old) ==
    IF r.out.k = "ret" /\ \E f \in r.fired : f.handler = "BrowserWindowHandler" /\ f.op = "construct"
    THEN r.out.v ELSE old

Step == nOps < MaxOps /\ nOps' = nOps + 1

(* require(request) *)
Load(request) ==
    /\ Step
    /\ UNCHANGED <<managerVars, mainVars, patchVars, auxVars>>
    /\ LET r == _load(proxies, request)
       IN  /\ Len(r.px) <= MaxProxies
           /\ proxies' = r.px
           /\ lastOp' = [NoOp EXCEPT !.op = "load",
                                     !.wrapArg = IF modulesMatch(request)
                                                 THEN oldLoad(request) ELSE Undef,
                                     !.via = Ret(r.val), !.direct = Ret(oldLoad(request))]
    /\ directHeap' = heap
    /\ UNCHANGED <<heap, BROWSER>>

(* w[p] *)
PGet(w, p) ==
    /\ Step
    /\ UNCHANGED <<managerVars, mainVars, patchVars, auxVars>>
    /\ LET r == TrapGet(proxies, heap, w, p, Px(w))
           target == proxies[w].target
           d == Get(proxies, heap, target, p, target)
           desc == OwnDesc(proxies, heap, target, p)
       IN  /\ Len(r.px) <= MaxProxies
           /\ Len(d.px) <= MaxProxies
           /\ proxies' = r.px
           /\ lastOp' = [NoOp EXCEPT !.op = "get", !.log = proxies[w].log,
                                     !.wrapArg = IF desc.own /\ desc.frozen
                                                 THEN Undef ELSE d.val,
                                     !.via = Ret(r.val), !.direct = Ret(d.val)]
    /\ directHeap' = heap
    /\ UNCHANGED <<heap, BROWSER>>

(* w[p] = newValue *)
PSet(w, p, newValue) ==
    /\ Step
    /\ UNCHANGED <<managerVars, mainVars, patchVars, auxVars>>
    /\ LET r == TrapSet(proxies, heap, w, p, newValue, Px(w))
           target == proxies[w].target
           d == Set(proxies, heap, target, p, newValue, target)
       IN  /\ heap' = r.h
           /\ directHeap' = d.h
           /\ lastOp' = [NoOp EXCEPT !.op = "set", !.log = proxies[w].log,
                                     !.via = r.out, !.direct = d.out]
    /\ UNCHANGED <<proxies, BROWSER>>

(* w.call(thisArg, arg) *)
PApply(w, thisArg, arg) ==
    /\ Step
    /\ UNCHANGED <<managerVars, mainVars, patchVars, auxVars>>
    /\ IsCallable(proxies, heap, Px(w))
    /\ LET r == TrapApply(proxies, heap, w, thisArg, arg)
           d == Apply(proxies, heap, proxies[w].target, unproxy(proxies, heap, thisArg), arg)
       IN  /\ heap' = r.h
           /\ directHeap' = d.h
           /\ lastOp' = [NoOp EXCEPT !.op = "apply", !.log = proxies[w].log,
                                     !.lookup = proxies[w].log,
                                     !.via = r.out, !.direct = d.out, !.fired = r.fired]
           /\ BROWSER' = NewBrowser(r, BROWSER)
    /\ UNCHANGED <<proxies>>

(* new w(arg) *)
PConstruct(w, arg) ==
    /\ Step
    /\ UNCHANGED <<managerVars, mainVars, patchVars, auxVars>>
    /\ IsCallable(proxies, heap, Px(w))
    /\ LET r == Construct(proxies, heap, Px(w), arg)
           d == Construct(proxies, heap, proxies[w].target, arg)
       IN  /\ heap' = r.h
           /\ directHeap' = d.h
           /\ lastOp' = [NoOp EXCEPT !.op = "construct", !.log = proxies[w].log,
                                     !.lookup = proxies[w].log \o ".<constructor>",
                                     !.via = r.out, !.direct = d.out, !.fired = r.fired]
           /\ BROWSER' = NewBrowser(r, BROWSER)
    /\ UNCHANGED <<proxies>>

(* Foreign code: class SlackWindow extends <a wrapped class> *)
Subclass(w) ==
    /\ Step
    /\ UNCHANGED <<managerVars, mainVars, patchVars, auxVars>>
    /\ IsCallable(proxies, heap, Px(w))
    /\ heap.proto = Undef
    /\ Underlying(proxies, Px(w)) # Obj(oSlackWindow)
    /\ heap' = [heap EXCEPT !.proto = Px(w)]
    /\ directHeap' = heap'
    /\ lastOp' = NoOp
    /\ UNCHANGED <<proxies, BROWSER>>

NextProxy ==
    \/ \E request \in Requests : Load(request)
    \/ \E w \in Wrappers, p \in Keys : PGet(w, p)
    \/ \E w \in Wrappers, p \in WritableKeys, v \in StoredValues : PSet(w, p, v)
    \/ \E w \in Wrappers, t \in ThisValues : PApply(w, t, TheArg)
    \/ \E w \in Wrappers : PConstruct(w, TheArg)
    \/ \E w \in Wrappers : Subclass(w)

SpecProxy == InitProxy /\ [][NextProxy]_vars

(* The proxy layer once Slack has constructed its window *)
WindowConstructed ==
    /\ heap = InitHeap(<<>>)
    /\ proxies = <<>>
    /\ lastOp = NoOp
    /\ directHeap = heap
    /\ BROWSER = Obj(oInstance)
    /\ nOps = 0

-----------------------------------------------------------------------------
(* Properties of the interception proxy *)

PathBrowserWindow == "<electron>.BrowserWindow"
PathGetAllWindows == "<electron>.BrowserWindow.getAllWindows"

(* The lookup string a trap computes for its wrapper's path *)
LookupString(op, log) == IF op = "construct" THEN log \o ".<constructor>" ELSE log

(* The result through the wrapper is the direct result; for a property    *)
(* read it may be a wrapper of the direct result                           *)
SameResult ==
    \/ lastOp.via = lastOp.direct
    \/ /\ lastOp.op = "get"
       /\ lastOp.via.v.t = "proxy"
       /\ lastOp.via.v.i \in Wrappers
       /\ proxies[lastOp.via.v.i].target = lastOp.direct.v

Unredirected ==
    /\ lastOp.op \in {"get", "set", "apply", "construct"}
    /\ lastOp.fired = {}
    /\ lastOp.lookup \notin DOMAIN redirected

WrapCalled == lastOp.op \in {"get", "load"} /\ Wrappable(lastOp.wrapArg)

(* C7: for every ordinary object or function x and every path,             *)
(* unproxy(wrap(x, path)) is x, isProxied(wrap(x, path)) is true and       *)
(* isProxied(x) is false.                                                  *)
C7_IdentityRoundTrip ==
    (WrapCalled /\ lastOp.wrapArg.t = "obj") =>
        /\ unproxy(proxies, heap, lastOp.via.v) = lastOp.wrapArg
        /\ isProxied(proxies, heap, lastOp.via.v)
        /\ ~isProxied(proxies, heap, lastOp.wrapArg)

(* C8: wrap() of a value that is already a wrapper returns that wrapper,   *)
(* and no wrapper's target is itself a wrapper.                            *)
C8_WrapIdempotent ==
    /\ (WrapCalled /\ lastOp.wrapArg.t = "proxy") => lastOp.via.v = lastOp.wrapArg
    /\ \A w \in Wrappers : proxies[w].target.t # "proxy"

-----------------------------------------------------------------------------
(* client.ts: class PluginManager.  A compiled plugin class is named by    *)
(* the file it was bundled from.  An instance is "started" once start()    *)
(* has been called on it and "stopped" once stop() has been called on it;  *)
(* a stopped instance that no record refers to is garbage and is dropped.  *)

Instance(name, PluginClass, cfg, status) ==
    [name |-> name, PluginClass |-> PluginClass, config |-> cfg, status |-> status]

(* config.enabled *)
Enabled(cfg) == Truthy(JGet(cfg, "enabled"))

NoThrow == [stop |-> FALSE, ctor |-> FALSE, start |-> FALSE]
Throwing == {NoThrow, [NoThrow EXCEPT !.stop = TRUE], [NoThrow EXCEPT !.ctor = TRUE],
             [NoThrow EXCEPT !.start = TRUE]}

Mgr(pl, det, threw, stopped, started) ==
    [plugins |-> pl, detached |-> det, threw |-> threw, stopped |-> stopped, started |-> started]

(* existing && existing.config.enabled *)
StopsExisting(pl, name) == name \in DOMAIN pl /\ Enabled(pl[name].config)

(* try { existing.instance.stop() } catch ... *)
StopExisting(pl, name) ==
    IF StopsExisting(pl, name) THEN [pl EXCEPT ![name].instance.status = "stopped"] ELSE pl

(* this.plugins.set(name, record): the instance of the replaced record is   *)
(* no longer referred to                                                    *)
Detach(pl, det, name) ==
    IF name \in DOMAIN pl /\ pl[name].instance.status = "started"
    THEN Append(det, pl[name].instance)
    ELSE det

(* new PluginClass(TautAPI, config); this.plugins.set(name, ...); start() *)
Install(pl, det, name, PluginClass, cfg, stopped) ==
    LET status == IF Enabled(cfg) THEN "started" ELSE "constructed"
        rec == [PluginClass |-> PluginClass,
                instance |-> Instance(name, PluginClass, cfg, status),
                config |-> cfg]
    IN  Mgr([n \in (DOMAIN pl) \cup {name} |-> IF n = name THEN rec ELSE pl[n]],
            Detach(pl, det, name), FALSE, stopped, Enabled(cfg))

(* loadPlugin that does not stop the instance it replaces *)
loadPluginWithoutStop(pl, det, name, PluginClass, cfg, t) ==
    IF t.ctor THEN Mgr(pl, det, FALSE, FALSE, FALSE)
    ELSE Install(pl, det, name, PluginClass, cfg, FALSE)

(* loadPlugin(name, PluginClass, config); t says which plugin methods throw *)
loadPlugin(pl, det, name, PluginClass, cfg, t) ==
    LET stopped == StopExisting(pl, name)
    IN  IF t.ctor
        THEN Mgr(stopped, det, FALSE, StopsExisting(pl, name), FALSE)  \* 'Error loading plugin'
        ELSE Install(stopped, det, name, PluginClass, cfg, StopsExisting(pl, name))

(* updatePluginConfig(name, newConfig) *)
updatePluginConfig(pl, det, name, newConfig, t) ==
    IF name \notin DOMAIN pl THEN Mgr(pl, det, FALSE, FALSE, FALSE)
    ELSE LET stopped == StopExisting(pl, name)
         IN  IF t.ctor
             THEN Mgr(stopped, det, TRUE, StopsExisting(pl, name), FALSE)  \* not in a try
             ELSE Install(stopped, det, name, pl[name].PluginClass, newConfig,
                          StopsExisting(pl, name))

(* The manager after a call, and the record of the call *)
Called(op, name, m) ==
    /\ plugins' = m.plugins
    /\ detached' = m.detached
    /\ lastCall' = [op |-> op, name |-> name, threw |-> m.threw,
                    stopped |-> m.stopped, started |-> m.started]

Classes == {"plugins/foo.ts", "user-plugins/foo.js"}
ManagerConfigs == {CfgOff, CfgOn, CfgOnOpt}

CallLoadPlugin(name, PluginClass, cfg, t) ==
    /\ Called("loadPlugin", name, loadPlugin(plugins, detached, name, PluginClass, cfg, t))
    /\ UNCHANGED <<proxyVars, auxVars, currentUserCss, mainVars, patchVars>>

CallUpdatePluginConfig(name, newConfig, t) ==
    /\ Called("updatePluginConfig", name,
              updatePluginConfig(plugins, detached, name, newConfig, t))
    /\ UNCHANGED <<proxyVars, auxVars, currentUserCss, mainVars, patchVars>>

InitManagerSpec ==
    /\ WindowConstructed
    /\ InitManager
    /\ InitMain
    /\ NoFiles
    /\ InitPatch
    /\ InitAux

NextManager ==
    \/ \E name \in Names, c \in Classes, cfg \in ManagerConfigs, t \in Throwing :
          CallLoadPlugin(name, c, cfg, t)
    \/ \E name \in Names, cfg \in ManagerConfigs, t \in Throwing :
          CallUpdatePluginConfig(name, cfg, t)

SpecManager == InitManagerSpec /\ [][NextManager]_vars

(* The instances of a name on which start() was called and stop() was not *)
LiveCount(name) ==
    (IF name \in DOMAIN plugins /\ plugins[name].instance.status = "started" THEN 1 ELSE 0)
    + Cardinality({i \in DOMAIN detached : detached[i].name = name})

(* C3: at most one instance per plugin name is live (started and not yet   *)
(* stopped): when a new instance is constructed and started for a name,    *)
(* stop() has already been called on the instance that ran before it.      *)
C3_OneLiveInstance == \A name \in Names : LiveCount(name) <= 1

(* C3 witness: a call stopped the running instance of a name and started   *)
(* a new one in its place                                                  *)
C3_Witness ==
    /\ lastCall.stopped
    /\ lastCall.started
    /\ plugins[lastCall.name].instance.status = "started"


(* The record of a name, if it has one *)
RecordOf(pl, name) == IF name \in DOMAIN pl THEN <<pl[name]>> ELSE <<>>

(* C15: an exception thrown by a plugin's constructor, start() or stop()   *)
(* in loadPlugin or updatePluginConfig does not reach the caller of that   *)
(* method, and the call leaves the record and the instance of every other *)
(* plugin name as they were.                                               *)
C15_ExceptionsContained ==
    [][/\ ~lastCall'.threw
       /\ \A other \in Names \ {lastCall'.name} :
             RecordOf(plugins', other) = RecordOf(plugins, other)]_vars

(* What updatePluginConfig(name, cfg) is to leave of a loaded plugin: the  *)
(* old instance stopped iff its config was enabled, and as the record of   *)
(* the name a fresh instance of the same class with cfg, started iff       *)
(* cfg.enabled                                                             *)
Restarted(name, cfg) ==
    /\ lastCall'.stopped = Enabled(plugins[name].config)
    /\ lastCall'.started = Enabled(cfg)
    /\ plugins'[name] =
          [PluginClass |-> plugins[name].PluginClass,
           instance |-> Instance(name, plugins[name].PluginClass, cfg,
                                 IF Enabled(cfg) THEN "started" ELSE "constructed"),
           config |-> cfg]

(* C23: updatePluginConfig(name, cfg) on a loaded plugin calls stop() on   *)
(* the old instance iff the old config was enabled, then stores a fresh    *)
(* instance constructed with cfg as the record of the name, then calls     *)
(* start() on it iff cfg.enabled.                                          *)
C23_StopThenStart ==
    [][\A name \in Names, cfg \in ManagerConfigs, t \in Throwing :
          (name \in DOMAIN plugins /\ CallUpdatePluginConfig(name, cfg, t))
          => Restarted(name, cfg)]_vars

(* C32: after any sequence of loadPlugin and updatePluginConfig calls,     *)
(* with a constructor, start() or stop() throwing or not, every record     *)
(* has config.enabled true exactly when start() has been called on its     *)
(* instance and stop() has not been called on it since.                    *)
C32_RecordConsistent ==
    \A name \in DOMAIN plugins :
        Enabled(plugins[name].config) <=> (plugins[name].instance.status = "started")
-----------------------------------------------------------------------------
(* main.cjs: plugin discovery, bundling and delivery                       *)

PLUGINS_DIR == "plugins"
USER_PLUGINS_DIR == "user-plugins"
PLUGIN_EXTENSIONS == <<".js", ".cjs", ".mjs", ".ts", ".cts", ".mts">>

(* The position of the last ch in s, 0 if there is none *)
LastIndexOf(s, ch) ==
    LET I == {i \in 1..Len(s) : SubSeq(s, i, i) = ch}
    IN  IF I = {} THEN 0 ELSE CHOOSE i \in I : \A j \in I : j <= i
(* path.join(dir, file) *)
join(dir, file) == dir \o "/" \o file
(* path.dirname(p) *)
dirname(p) == SubSeq(p, 1, LastIndexOf(p, "/") - 1)
(* path.extname(p): from the last "." of the last path segment, unless     *)
(* that segment has none or starts with it                                 *)
extname(p) ==
    LET b == SubSeq(p, LastIndexOf(p, "/") + 1, Len(p))
        dot == LastIndexOf(b, ".")
    IN  IF dot <= 1 THEN "" ELSE SubSeq(b, dot, Len(b))
(* path.basename(p, ext) *)
basename(p, ext) ==
    LET b == SubSeq(p, LastIndexOf(p, "/") + 1, Len(p))
    IN  IF /\ Len(ext) > 0
           /\ Len(b) > Len(ext)
           /\ SubSeq(b, Len(b) - Len(ext) + 1, Len(b)) = ext
        THEN SubSeq(b, 1, Len(b) - Len(ext))
        ELSE b
getPluginName(filePath) == basename(filePath, extname(filePath))
isValidPluginFile(filename) ==
    \E i \in DOMAIN PLUGIN_EXTENSIONS : PLUGIN_EXTENSIONS[i] = extname(filename)

(* fs.readdir(dir): the names in the directory, in an order the file       *)
(* system chooses                                                          *)
NamesIn(dir) == {f.file : f \in {g \in files : g.dir = dir}}
Listings(dir) ==
    {l \in [1..Cardinality(NamesIn(dir)) -> NamesIn(dir)] :
        \A i, j \in DOMAIN l : l[i] = l[j] => i = j}
(* scanPluginDir(dir), given what readdir returned *)
scanPluginDir(dir, listing) ==
    LET valid == SelectSeq(listing, isValidPluginFile)
    IN  [i \in DOMAIN valid |-> join(dir, valid[i])]
(* What bundle(filePath) and the bundled class do; a file that is gone     *)
(* does not bundle                                                         *)
fileExists(filePath) == \E f \in files : join(f.dir, f.file) = filePath
KindOf(filePath) ==
    IF fileExists(filePath)
    THEN (CHOOSE f \in files : join(f.dir, f.file) = filePath).kind
    ELSE "syntaxError"

(* config.plugins[name] || { enabled: false } *)
PluginConfigOf(cfg, name) == Or(JGet(JGet(cfg, "plugins"), name), CfgOff)

(* Messages on the way to the renderer *)
ConfigChanged(name, cfg) ==
    [channel |-> "taut:config-changed", name |-> name, config |-> cfg, css |-> ""]
UserCssContents == "body{}"
UserCssChanged(css) ==
    [channel |-> "taut:user-css-changed", name |-> "", config |-> JUndefined, css |-> css]

(* new Set([...a, ...b]) in iteration order *)
RECURSIVE Dedupe(_)
Dedupe(s) ==
    IF s = <<>> THEN <<>>
    ELSE LET front == Dedupe(SubSeq(s, 1, Len(s) - 1))
             last == s[Len(s)]
         IN  IF \E i \in DOMAIN front : front[i] = last THEN front ELSE Append(front, last)

(* watchConfig: the loop over allPluginNames, giving the messages it sends *)
RECURSIVE DiffFrom(_, _, _, _)
DiffFrom(oldPluginConfigs, newPluginConfigs, allPluginNames, i) ==
    IF i > Len(allPluginNames) THEN <<>>
    ELSE LET name == allPluginNames[i]
             oldPluginConfig == Or(JGet(oldPluginConfigs, name), CfgOff)
             newPluginConfig == Or(JGet(newPluginConfigs, name), CfgOff)
             rest == DiffFrom(oldPluginConfigs, newPluginConfigs, allPluginNames, i + 1)
         IN  IF ~deepEqual(oldPluginConfig, newPluginConfig) /\ BROWSER # Undef
             THEN <<ConfigChanged(name, newPluginConfig)>> \o rest
             ELSE rest
ConfigDiff(oldConfig, newConfig) ==
    LET oldPluginConfigs == Or(JGet(oldConfig, "plugins"), JObj(<<>>))
        newPluginConfigs == Or(JGet(newConfig, "plugins"), JObj(<<>>))
        allPluginNames == Dedupe(ObjectKeys(oldPluginConfigs) \o ObjectKeys(newPluginConfigs))
    IN  DiffFrom(oldPluginConfigs, newPluginConfigs, allPluginNames, 1)

(* One invocation of the 'taut:start-plugins' handler *)
Invocation(pc) == [pc |-> pc, pluginFiles |-> <<>>, i |-> 0, pluginConfig |-> JUndefined]
AllStarted == \A s \in DOMAIN starts : starts[s].pc = "done"

(* The handler is about to take file number i: either it enters            *)
(* bundleAndSendPlugin, which reads the file's config and calls bundle(),  *)
(* or the loop is over and the watchers are installed.                     *)
LoopEnds(inv, i) == i > Len(inv.pluginFiles)
Proceed(inv, i, cfg) ==
    IF LoopEnds(inv, i)
    THEN [inv EXCEPT !.pc = "sendUserCss", !.i = i, !.pluginConfig = JUndefined]
    ELSE [inv EXCEPT !.pc = "bundle", !.i = i,
                     !.pluginConfig = PluginConfigOf(cfg, getPluginName(inv.pluginFiles[i]))]
(* watchConfig(); watchUserCss(); watchPluginDir(PLUGINS_DIR);             *)
(* watchPluginDir(USER_PLUGINS_DIR)                                        *)
InstallWatchers(w) ==
    [config |-> w.config + 1, userCss |-> w.userCss + 1,
     plugins |-> w.plugins + 1, userPlugins |-> w.userPlugins + 1]
Advance(s, i, cfg) ==
    /\ starts' = [starts EXCEPT ![s] = Proceed(starts[s], i, cfg)]
    /\ watchers' = IF LoopEnds(starts[s], i) THEN InstallWatchers(watchers) ELSE watchers

(* The page loads: a new PluginManager is created and its init() invokes   *)
(* 'taut:start-plugins'                                                    *)
Invoke ==
    /\ starts' = Append(starts, Invocation(IF esbuildInitialized THEN "readConfig"
                                                                ELSE "initEsbuild"))
    /\ plugins' = <<>>
    /\ detached' = <<>>
    /\ lastCall' = NoCall
    /\ currentUserCss' = ""
    /\ lastSave' = NoSave
    /\ UNCHANGED <<files, configFile, config, esbuildInitialized, watchers, handlers,
                   sent, nSaves, proxyVars, auxVars, patchVars>>
StartPlugins == Len(starts) < MaxStarts /\ Invoke
(* The page is loaded again (View > Reload): its new PluginManager invokes *)
(* the handler once more                                                   *)
Reload == starts # <<>> /\ Len(starts) < MaxStarts + MaxReloads /\ Invoke

(* await initEsbuild(ESBUILD_WASM_PATH); esbuildInitialized = true *)
StartInitEsbuild(s) ==
    /\ starts[s].pc = "initEsbuild"
    /\ esbuildInitialized' = TRUE
    /\ starts' = [starts EXCEPT ![s].pc = "readConfig"]
    /\ UNCHANGED <<files, configFile, config, watchers, handlers, sent, nSaves, lastSave,
                   proxyVars, auxVars, managerVars, patchVars>>

(* config = await readConfig() *)
StartReadConfig(s) ==
    /\ starts[s].pc = "readConfig"
    /\ config' = configFile
    /\ starts' = [starts EXCEPT ![s].pc = "scan"]
    /\ UNCHANGED <<files, configFile, esbuildInitialized, watchers, handlers, sent, nSaves,
                   lastSave, proxyVars, auxVars, managerVars, patchVars>>

(* The two scans return; pluginFiles = [...corePlugins, ...userPlugins] *)
StartScan(s) ==
    /\ starts[s].pc = "scan"
    /\ \E core \in Listings(PLUGINS_DIR), user \in Listings(USER_PLUGINS_DIR) :
          LET pluginFiles == scanPluginDir(PLUGINS_DIR, core)
                             \o scanPluginDir(USER_PLUGINS_DIR, user)
              inv == [starts[s] EXCEPT !.pluginFiles = pluginFiles]
          IN  /\ starts' = [starts EXCEPT ![s] = Proceed(inv, 1, config)]
              /\ watchers' = IF LoopEnds(inv, 1) THEN InstallWatchers(watchers) ELSE watchers
    /\ UNCHANGED <<files, configFile, config, esbuildInitialized, handlers, sent, nSaves,
                   lastSave, proxyVars, auxVars, managerVars, patchVars>>

(* bundleAndSendPlugin whose failure ends the loop over pluginFiles *)
StartBundleEndsLoop(s) ==
    /\ starts[s].pc = "bundle"
    /\ IF KindOf(starts[s].pluginFiles[starts[s].i]) = "syntaxError" \/ BROWSER = Undef
       THEN Advance(s, Len(starts[s].pluginFiles) + 1, config)
       ELSE /\ starts' = [starts EXCEPT ![s].pc = "execute"]
            /\ watchers' = watchers
    /\ UNCHANGED <<files, configFile, config, esbuildInitialized, handlers, sent, nSaves,
                   lastSave, proxyVars, auxVars, managerVars, patchVars>>

(* bundleAndSendPlugin: bundle(filePath) settles.  If it rejected, or      *)
(* there is no window, the error is logged and the loop goes on; otherwise *)
(* the code is handed to executeJavaScript.                                *)
StartBundle(s) ==
    /\ starts[s].pc = "bundle"
    /\ IF KindOf(starts[s].pluginFiles[starts[s].i]) = "syntaxError" \/ BROWSER = Undef
       THEN Advance(s, starts[s].i + 1, config)
       ELSE /\ starts' = [starts EXCEPT ![s].pc = "execute"]
            /\ watchers' = watchers
    /\ UNCHANGED <<files, configFile, config, esbuildInitialized, handlers, sent, nSaves,
                   lastSave, proxyVars, auxVars, managerVars, patchVars>>

(* The renderer runs the code: loadPlugin(name, <iife>.default, config);  *)
(* executeJavaScript resolves and the loop goes on                         *)
StartExecute(s) ==
    /\ starts[s].pc = "execute"
    /\ LET filePath == starts[s].pluginFiles[starts[s].i]
           t == [NoThrow EXCEPT !.ctor = (KindOf(filePath) = "throws")]
       IN  Called("loadPlugin", getPluginName(filePath),
                  loadPlugin(plugins, detached, getPluginName(filePath), filePath,
                             starts[s].pluginConfig, t))
    /\ Advance(s, starts[s].i + 1, config)
    /\ UNCHANGED <<files, configFile, config, esbuildInitialized, handlers, sent, nSaves,
                   lastSave, proxyVars, auxVars, currentUserCss, patchVars>>

(* await sendUserCss() *)
StartSendUserCss(s) ==
    /\ starts[s].pc = "sendUserCss"
    /\ sent' = IF BROWSER # Undef THEN Append(sent, UserCssChanged(UserCssContents)) ELSE sent
    /\ starts' = [starts EXCEPT ![s].pc = "done"]
    /\ UNCHANGED <<files, configFile, config, esbuildInitialized, watchers, handlers, nSaves,
                   lastSave, proxyVars, auxVars, managerVars, patchVars>>

(* preload.cjs: ipcRenderer.on('taut:user-css-changed') *)
OnUserCssChanged ==
    /\ sent # <<>>
    /\ Head(sent).channel = "taut:user-css-changed"
    /\ currentUserCss' = Head(sent).css
    /\ sent' = Tail(sent)
    /\ UNCHANGED <<files, configFile, config, esbuildInitialized, starts, watchers, handlers,
                   nSaves, lastSave, proxyVars, auxVars, plugins, detached, lastCall, patchVars>>

(* client.ts: TautBridge.onConfigChange -> updatePluginConfig *)
OnConfigChange ==
    /\ sent # <<>>
    /\ Head(sent).channel = "taut:config-changed"
    /\ Called("updatePluginConfig", Head(sent).name,
              updatePluginConfig(plugins, detached, Head(sent).name, Head(sent).config, NoThrow))
    /\ sent' = Tail(sent)
    /\ UNCHANGED <<files, configFile, config, esbuildInitialized, starts, watchers, handlers,
                   nSaves, lastSave, proxyVars, auxVars, currentUserCss, patchVars>>

(* The user saves config.jsonc: every listener watchFile has on the path   *)
(* is called.  A save made while the config is watched and nothing else is *)
(* going on is remembered with the config that was loaded then, and so are *)
(* the messages sent from then on.                                         *)
Settled == handlers = 0 /\ AllStarted /\ watchers.config >= 1
SaveConfig(contents) ==
    /\ nSaves < MaxSaves
    /\ nSaves' = nSaves + 1
    /\ configFile' = contents
    /\ handlers' = handlers + watchers.config
    /\ lastSave' = IF Settled THEN [valid |-> TRUE, config |-> config, msgs |-> <<>>]
                            ELSE NoSave
    /\ UNCHANGED <<files, config, esbuildInitialized, starts, watchers, sent,
                   proxyVars, auxVars, managerVars, patchVars>>

(* watchConfig's listener: readConfig() returns, the plugins are compared  *)
(* one by one and config is replaced                                       *)
ConfigFileChanged ==
    /\ handlers > 0
    /\ handlers' = handlers - 1
    /\ LET newConfig == configFile
           msgs == ConfigDiff(config, newConfig)
       IN  /\ sent' = sent \o msgs
           /\ lastSave' = IF lastSave.valid THEN [lastSave EXCEPT !.msgs = @ \o msgs]
                                             ELSE lastSave
           /\ config' = newConfig
    /\ UNCHANGED <<files, configFile, esbuildInitialized, starts, watchers, nSaves,
                   proxyVars, auxVars, managerVars, patchVars>>

-----------------------------------------------------------------------------
(* start-plugins over the plugin directories there may be                  *)

Kinds == {"ok", "syntaxError", "throws"}
File(dir, file, kind) == [dir |-> dir, file |-> file, kind |-> kind]
(* A file is absent, or present as a plugin that bundles and loads, one    *)
(* that does not bundle, or one whose class throws when constructed        *)
PluginFile(dir, file) == {{}} \cup {{File(dir, file, kind)} : kind \in Kinds}
OtherFile(dir, file) == {{}, {File(dir, file, "ok")}}
Directories ==
    {a \cup b \cup c \cup d \cup e :
        a \in OtherFile(PLUGINS_DIR, "foo.js"),
        b \in OtherFile(PLUGINS_DIR, "foo.mjs"),
        c \in OtherFile(PLUGINS_DIR, "foo.ts"),
        d \in OtherFile(PLUGINS_DIR, "notes.md"),
        e \in PluginFile(USER_PLUGINS_DIR, "foo.js")}

InitStart ==
    /\ WindowConstructed
    /\ InitManager
    /\ InitMain
    /\ InitPatch
    /\ InitAux
    /\ files \in Directories
    /\ configFile = TautConfig(CfgOn, JUndefined)

NextStart ==
    \/ StartPlugins
    \/ \E s \in DOMAIN starts : StartInitEsbuild(s)
    \/ \E s \in DOMAIN starts : StartReadConfig(s)
    \/ \E s \in DOMAIN starts : StartScan(s)
    \/ \E s \in DOMAIN starts : StartBundle(s)
    \/ \E s \in DOMAIN starts : StartExecute(s)
    \/ \E s \in DOMAIN starts : StartSendUserCss(s)
    \/ OnUserCssChanged

SpecStart == InitStart /\ [][NextStart]_vars

(* The plugin source files of a name in a directory *)
SourcesOf(name, dir) ==
    {f \in files : f.dir = dir /\ isValidPluginFile(f.file) /\ getPluginName(f.file) = name}
(* start-plugins has run and nothing of it is still going on *)
Started == starts # <<>> /\ AllStarted

(* C9: when a name has a source file in both the system and the user       *)
(* plugin directory, the code left loaded for it after start-plugins is    *)
(* the user-directory file's, whatever the two extensions are.             *)
C9_UserFileActive ==
    \A name \in Names :
        (/\ Started
         /\ SourcesOf(name, PLUGINS_DIR) # {}
         /\ SourcesOf(name, USER_PLUGINS_DIR) # {}
         /\ name \in DOMAIN plugins)
        => dirname(plugins[name].PluginClass) = USER_PLUGINS_DIR

(* The extension PLUGIN_EXTENSIONS lists first, and last, among exts *)
FirstListed(exts) ==
    PLUGIN_EXTENSIONS[CHOOSE i \in DOMAIN PLUGIN_EXTENSIONS :
        /\ PLUGIN_EXTENSIONS[i] \in exts
        /\ \A j \in 1..(i - 1) : PLUGIN_EXTENSIONS[j] \notin exts]
LastListed(exts) ==
    PLUGIN_EXTENSIONS[CHOOSE i \in DOMAIN PLUGIN_EXTENSIONS :
        /\ PLUGIN_EXTENSIONS[i] \in exts
        /\ \A j \in (i + 1)..Len(PLUGIN_EXTENSIONS) : PLUGIN_EXTENSIONS[j] \notin exts]

(* C10: when several files of one directory share a base name and differ   *)
(* in extension, a fixed priority among the extensions decides which one   *)
(* is active, whatever order the directory listing returns them in.  The   *)
(* only order the program has is that of PLUGIN_EXTENSIONS, so the active  *)
(* file has the extension listed first there, or the one listed last.      *)
C10_ExtensionPriority ==
    \A name \in Names :
        LET sources == SourcesOf(name, PLUGINS_DIR)
            exts == {extname(f.file) : f \in sources}
        IN  (/\ Started
             /\ Cardinality(sources) > 1
             /\ \A f \in sources : f.kind = "ok"
             /\ SourcesOf(name, USER_PLUGINS_DIR) = {}
             /\ name \in DOMAIN plugins)
            => extname(plugins[name].PluginClass) \in {FirstListed(exts), LastListed(exts)}

(* start-plugins over two plugin names, each file of which may fail *)
InitSkip ==
    /\ WindowConstructed
    /\ InitManager
    /\ InitMain
    /\ InitPatch
    /\ InitAux
    /\ files \in {a \cup b \cup c :
                    a \in OtherFile(PLUGINS_DIR, "foo.ts"),
                    b \in PluginFile(USER_PLUGINS_DIR, "foo.js"),
                    c \in PluginFile(USER_PLUGINS_DIR, "bar.js")}
    /\ configFile = TautConfig(CfgOn, JUndefined)

SpecSkip == InitSkip /\ [][NextStart]_vars

(* The plugin files of a name that bundle and load *)
Loadable(name) ==
    {join(f.dir, f.file) : f \in {g \in SourcesOf(name, PLUGINS_DIR)
                                      \cup SourcesOf(name, USER_PLUGINS_DIR) : g.kind = "ok"}}

(* C14: a plugin file whose bundling or delivery fails is skipped and      *)
(* nothing else is: when a start-plugins run is over, no record holds the  *)
(* class of a file that failed, and every name with a file that bundles    *)
(* and loads has been delivered and holds the class of such a file.        *)
C14_FailureSkipsOnlyThat ==
    Started =>
        /\ \A name \in DOMAIN plugins : plugins[name].PluginClass \in Loadable(name)
        /\ \A name \in Names : Loadable(name) # {} => name \in DOMAIN plugins

(* C14 witness: user-plugins/foo.js failed to bundle, bar.js came after it *)
(* in the same run and was delivered                                       *)
C14_Witness ==
    /\ Started
    /\ File(USER_PLUGINS_DIR, "foo.js", "syntaxError") \in files
    /\ \E i, j \in DOMAIN starts[1].pluginFiles :
          /\ i < j
          /\ starts[1].pluginFiles[i] = join(USER_PLUGINS_DIR, "foo.js")
          /\ starts[1].pluginFiles[j] = join(USER_PLUGINS_DIR, "bar.js")
    /\ "bar" \in DOMAIN plugins
    /\ plugins["bar"].PluginClass = join(USER_PLUGINS_DIR, "bar.js")

-----------------------------------------------------------------------------
(* start-plugins, saves of config.jsonc and the config watcher             *)

InitConfig ==
    /\ WindowConstructed
    /\ InitManager
    /\ InitMain
    /\ InitPatch
    /\ InitAux
    /\ files = {File(PLUGINS_DIR, "foo.ts", "ok")}
    /\ configFile \in ConfigFiles

NextConfig ==
    \/ StartPlugins
    \/ \E s \in DOMAIN starts : StartInitEsbuild(s)
    \/ \E s \in DOMAIN starts : StartReadConfig(s)
    \/ \E s \in DOMAIN starts : StartScan(s)
    \/ \E s \in DOMAIN starts : StartBundle(s)
    \/ \E s \in DOMAIN starts : StartExecute(s)
    \/ \E s \in DOMAIN starts : StartSendUserCss(s)
    \/ OnUserCssChanged
    \/ OnConfigChange
    \/ \E contents \in ConfigFiles : SaveConfig(contents)
    \/ ConfigFileChanged

SpecConfig == InitConfig /\ [][NextConfig]_vars

(* Structural equality of JSON values: the same primitive, arrays equal    *)
(* element by element, objects with the same keys and equal values         *)
RECURSIVE SameJSON(_, _)
SameJSON(a, b) ==
    /\ a.j = b.j
    /\ a.n = b.n
    /\ IF a.j = "array"
       THEN /\ Len(a.items) = Len(b.items)
            /\ \A i \in DOMAIN a.items : SameJSON(a.items[i].val, b.items[i].val)
       ELSE /\ {a.items[i].key : i \in DOMAIN a.items} = {b.items[i].key : i \in DOMAIN b.items}
            /\ \A i \in DOMAIN a.items : SameJSON(a.items[i].val, JGet(b, a.items[i].key))

(* The plugins whose config differs between two configs *)
Changed(oldConfig, newConfig) ==
    {name \in Names : ~SameJSON(PluginConfigOf(oldConfig, name), PluginConfigOf(newConfig, name))}

(* C4: when config.jsonc is saved with only plugin X's config changed      *)
(* against the previously loaded config, then once the save is handled     *)
(* exactly one config-changed message has been sent: it carries X and X's  *)
(* new config, and no message is sent for any other name.                  *)
C4_OneMessagePerChange ==
    \A X \in Names :
        (/\ lastSave.valid
         /\ handlers = 0
         /\ Changed(lastSave.config, configFile) = {X})
        => lastSave.msgs = <<ConfigChanged(X, PluginConfigOf(configFile, X))>>

(* C4 witness: a save that changed the config of one plugin only has been  *)
(* handled, the other plugin being configured and untouched                *)
C4_Witness ==
    /\ lastSave.valid
    /\ handlers = 0
    /\ Changed(lastSave.config, configFile) = {"foo"}
    /\ HasOwn(JGet(configFile, "plugins"), "bar")
    /\ Len(lastSave.msgs) = 1


(* The files of a name that invocation s of start-plugins bundled and      *)
(* delivered to the renderer                                               *)
DeliveredBy(s, name) ==
    {i \in DOMAIN starts[s].pluginFiles :
        /\ getPluginName(starts[s].pluginFiles[i]) = name
        /\ KindOf(starts[s].pluginFiles[i]) # "syntaxError"}

(* C22: start-plugins delivers each plugin name at most once, the active   *)
(* file of the name, and no other file of that name.                       *)
C22_OnlyActiveDelivered ==
    Started => \A s \in DOMAIN starts, name \in Names :
                  Cardinality(DeliveredBy(s, name)) <= 1

-----------------------------------------------------------------------------
(* watchPluginDir: changes in the plugin directories while the program runs *)

(* The listeners fs.watch has on a directory *)
ListenersOn(dir) == IF dir = PLUGINS_DIR THEN watchers.plugins ELSE watchers.userPlugins

(* One invocation of the callback given to watch(dir, ...), for the change *)
(* number id; read is the change whose contents bundle() read, seq the     *)
(* place of its delivery among the deliveries made                         *)
Callback(id, filePath) ==
    [id |-> id, filePath |-> filePath, pc |-> "exists", pluginConfig |-> JUndefined,
     kind |-> "", outcome |-> "", read |-> 0, seq |-> 0]
Callbacks(n, id, filePath) == [i \in 1..n |-> Callback(id, filePath)]
Changes == {events[e].id : e \in DOMAIN events}
AllHandled == \A e \in DOMAIN events : events[e].pc = "done"
(* The last change made to a file so far, and the deliveries made so far *)
Latest(filePath) ==
    LET ids == {events[e].id : e \in {x \in DOMAIN events : events[x].filePath = filePath}}
    IN  IF ids = {} THEN 0 ELSE CHOOSE id \in ids : \A other \in ids : other <= id
Delivered == {e \in DOMAIN events : events[e].outcome = "delivered"}
(* Code handed to executeJavaScript runs whatever happens to the files     *)
(* meanwhile, so the file system is taken to change before or after it     *)
NothingToExecute ==
    /\ \A s \in DOMAIN starts : starts[s].pc # "execute"
    /\ \A e \in DOMAIN events : events[e].pc # "execute"

(* fs.watch reports a change of dir/filename: every listener on dir is     *)
(* called and returns at once unless the name is a plugin file's           *)
Notify(dir, filename) ==
    events' = IF isValidPluginFile(filename)
              THEN events \o Callbacks(ListenersOn(dir), Cardinality(Changes) + 1,
                                       join(dir, filename))
              ELSE events

(* The user saves a plugin file *)
FileChanged(f) ==
    /\ Cardinality(Changes) < MaxEvents
    /\ ListenersOn(f.dir) > 0
    /\ NothingToExecute
    /\ Notify(f.dir, f.file)
    /\ UNCHANGED <<mainVars, proxyVars, managerVars, patchVars, watchRest>>

(* The user deletes a plugin file *)
FileDeleted(f) ==
    /\ Cardinality(Changes) < MaxEvents
    /\ ListenersOn(f.dir) > 0
    /\ NothingToExecute
    /\ files' = files \ {f}
    /\ Notify(f.dir, f.file)
    /\ UNCHANGED <<configFile, config, esbuildInitialized, starts, watchers, handlers, sent,
                   nSaves, lastSave, proxyVars, managerVars, patchVars, watchRest>>

(* The callback after its check: fileExists(filePath) has answered.  A     *)
(* deleted file is logged and the callback returns; otherwise esbuild is   *)
(* initialised if it is not yet, and bundleAndSendPlugin reads the         *)
(* plugin's config and calls bundle()                                      *)
WatchEnter(e) ==
    /\ events[e].pc \in {"exists", "initEsbuild"}
    /\ IF events[e].pc = "exists" /\ ~fileExists(events[e].filePath)
       THEN /\ events' = [events EXCEPT ![e].pc = "done", ![e].outcome = "deleted"]
            /\ UNCHANGED esbuildInitialized
       ELSE IF events[e].pc = "exists" /\ ~esbuildInitialized
       THEN /\ events' = [events EXCEPT ![e].pc = "initEsbuild"]
            /\ UNCHANGED esbuildInitialized
       ELSE /\ esbuildInitialized' = TRUE
            /\ events' = [events EXCEPT
                  ![e].pc = "bundle",
                  ![e].read = Latest(events[e].filePath),
                  ![e].pluginConfig = PluginConfigOf(config, getPluginName(events[e].filePath))]
    /\ UNCHANGED <<files, configFile, config, starts, watchers, handlers, sent, nSaves,
                   lastSave, proxyVars, managerVars, patchVars, watchRest>>

(* bundleAndSendPlugin in the callback: bundle(filePath) settles; it read  *)
(* the file when it was called or at any time since                        *)
WatchBundle(e) ==
    /\ events[e].pc = "bundle"
    /\ IF KindOf(events[e].filePath) = "syntaxError" \/ BROWSER = Undef
       THEN events' = [events EXCEPT ![e].pc = "done", ![e].outcome = "failed"]
       ELSE \E read \in events[e].read..Latest(events[e].filePath) :
               events' = [events EXCEPT ![e].pc = "execute", ![e].read = read,
                                        ![e].kind = KindOf(events[e].filePath)]
    /\ UNCHANGED <<mainVars, proxyVars, managerVars, patchVars, watchRest>>

(* The renderer runs the code: loadPlugin(name, <iife>.default, config) *)
WatchExecute(e) ==
    /\ events[e].pc = "execute"
    /\ LET filePath == events[e].filePath
           t == [NoThrow EXCEPT !.ctor = (events[e].kind = "throws")]
       IN  Called("loadPlugin", getPluginName(filePath),
                  loadPlugin(plugins, detached, getPluginName(filePath), filePath,
                             events[e].pluginConfig, t))
    /\ events' = [events EXCEPT ![e].pc = "done", ![e].outcome = "delivered",
                                ![e].seq = Cardinality(Delivered) + 1]
    /\ UNCHANGED <<mainVars, proxyVars, currentUserCss, patchVars, watchRest>>

InitWatch ==
    /\ WindowConstructed
    /\ InitManager
    /\ InitMain
    /\ InitPatch
    /\ InitAux
    /\ files \in {{File(PLUGINS_DIR, "foo.ts", "ok")},
                  {File(PLUGINS_DIR, "foo.ts", "ok"), File(PLUGINS_DIR, "notes.md", "ok")},
                  {File(PLUGINS_DIR, "foo.ts", "ok"), File(USER_PLUGINS_DIR, "bar.js", "throws")}}
    /\ configFile = TautConfig(CfgOn, CfgOn)

NextWatch ==
    \/ StartPlugins
    \/ Reload
    \/ \E s \in DOMAIN starts : StartInitEsbuild(s)
    \/ \E s \in DOMAIN starts : StartReadConfig(s)
    \/ \E s \in DOMAIN starts : StartScan(s)
    \/ \E s \in DOMAIN starts : StartBundle(s)
    \/ \E s \in DOMAIN starts : StartExecute(s)
    \/ \E s \in DOMAIN starts : StartSendUserCss(s)
    \/ OnUserCssChanged
    \/ \E f \in files : FileChanged(f)
    \/ \E f \in files : FileDeleted(f)
    \/ \E e \in DOMAIN events : WatchEnter(e)
    \/ \E e \in DOMAIN events : WatchBundle(e)
    \/ \E e \in DOMAIN events : WatchExecute(e)

SpecWatch == InitWatch /\ [][NextWatch]_vars

(* The callbacks of one change and those of them that delivered code *)
CallbacksOf(id) == {e \in DOMAIN events : events[e].id = id}
Deliveries(id) == {e \in CallbacksOf(id) : events[e].outcome = "delivered"}

(* C11: start-plugins is idempotent: once every invocation of it has       *)
(* finished, the config file, the style file and each plugin directory     *)
(* have the one listener a single invocation installs, however many times  *)
(* it was invoked, and a single plugin-file change is delivered once.      *)
C11_StartIdempotent ==
    /\ Started => watchers = InstallWatchers(NoWatchers)
    /\ \A id \in Changes : Cardinality(Deliveries(id)) <= 1

(* The callbacks that found the file of a name deleted *)
DeletionsOf(name) ==
    {e \in DOMAIN events : events[e].outcome = "deleted"
                           /\ getPluginName(events[e].filePath) = name}

(* C16: once a plugin's source file has been deleted, no file resolves to  *)
(* its name any more and the deletion has been handled, the plugin manager *)
(* holds no record for that name (its instance was stopped and removed).   *)
C16_DeletedPluginRemoved ==
    \A name \in Names :
        (/\ Started
         /\ AllHandled
         /\ DeletionsOf(name) # {}
         /\ SourcesOf(name, PLUGINS_DIR) \cup SourcesOf(name, USER_PLUGINS_DIR) = {})
        => name \notin DOMAIN plugins

(* The bundle() calls in flight: bundleAndSendPlugin is awaiting them *)
InFlight ==
    Cardinality({s \in DOMAIN starts : starts[s].pc = "bundle"})
    + Cardinality({e \in DOMAIN events : events[e].pc = "bundle"})

(* C19: at most one bundle() call is in flight at any time. *)
C19_BundleSerialized == InFlight <= 1

(* C25: the units compiled for the changes of one file are delivered in    *)
(* the order of the changes: of two deliveries the later one was built     *)
(* from contents at least as recent, and once every callback is over the   *)
(* last delivery was built from the latest contents of the file.           *)
C25_DeliveredInOrder ==
    \A a \in Delivered, b \in Delivered :
        (events[a].filePath = events[b].filePath /\ events[a].seq < events[b].seq)
        => events[a].read <= events[b].read

(* The calls of initEsbuild that have been made and have not settled yet.  *)
(* esbuildInitialized is set when a call settles and no call is made once  *)
(* it is set, so a second call is made only while a first one is pending.  *)
InitEsbuildPending ==
    Cardinality({s \in DOMAIN starts : starts[s].pc = "initEsbuild"})
    + Cardinality({e \in DOMAIN events : events[e].pc = "initEsbuild"})

(* C35: across every interleaving of start-plugins invocations and         *)
(* plugin-file change events, initEsbuild is called at most once.          *)
C35_InitEsbuildOnce == InitEsbuildPending <= 1

-----------------------------------------------------------------------------
(* The proxy layer once foreign code holds require('electron') and its     *)
(* BrowserWindow                                                           *)

InitLoaded ==
    /\ \E b1 \in {"ret", "throw"}, b2 \in {"mut", "throw"} :
          heap = InitHeap((oBrowserWindow :> b1) @@ (oGetAllWindows :> b2))
    /\ proxies = TrapGet(_load(<<>>, "electron").px, heap, 1, K("BrowserWindow"), Px(1)).px
    /\ lastOp = NoOp
    /\ directHeap = heap
    /\ BROWSER = Undef
    /\ nOps = 0
    /\ InitManager
    /\ InitMain
    /\ NoFiles
    /\ InitPatch
    /\ InitAux

SpecLoaded == InitLoaded /\ [][NextProxy]_vars

(* C12: when the apply trap invokes a redirect handler and the handler     *)
(* throws, the trap catches the exception: the foreign caller of the       *)
(* wrapped function gets a value back, never a thrown error.               *)
C12_HandlerErrorCaught ==
    (lastOp.op = "apply" /\ lastOp.fired # {}) => lastOp.via.k = "ret"

(* C13: a construct through a wrapper never throws to its caller, whether  *)
(* the underlying constructor or the registered constructor handler        *)
(* raised the exception.                                                   *)
C13_ConstructNeverThrows ==
    lastOp.op = "construct" => lastOp.via.k = "ret"

-----------------------------------------------------------------------------
(* C31: the module-load hook returns, for a request that matches no        *)
(* pattern of the allow-list, exactly what the previous loader returned    *)
(* and creates no wrapper; for a matching request it returns a new wrapper *)
(* whose target is what the previous loader returned and whose path is     *)
(* "<" + request + ">".                                                    *)
C31_LoadDelegates ==
    [][\A request \in Requests :
          Load(request) =>
             IF modulesMatch(request)
             THEN /\ lastOp'.via = Ret(Px(Len(proxies')))
                  /\ proxies' = Append(proxies, [target |-> oldLoad(request),
                                                 log |-> "<" \o request \o ">"])
             ELSE /\ lastOp'.via = Ret(oldLoad(request))
                  /\ proxies' = proxies]_vars

(* C31 witness: both kinds of request have been loaded, "fs" last: the one *)
(* wrapper is the module "electron-x" under its own root path              *)
C31_Witness ==
    /\ lastOp.op = "load"
    /\ lastOp.via = Ret(Obj(oFs))
    /\ proxies = <<[target |-> Obj(oSlackWindow), log |-> "<electron-x>"]>>

-----------------------------------------------------------------------------
(* Access paths.  The get trap derives the path of a child as              *)
(* `${log}.${prop(p)}`; the apply trap looks its own path up, the          *)
(* construct trap its path followed by ".<constructor>".                   *)
RECURSIVE PathOf(_, _)
PathOf(log, keys) ==
    IF keys = <<>> THEN log
    ELSE PathOf(log \o "." \o prop(Head(keys)), Tail(keys))

PathKeys == {K("BrowserWindow"), K("<constructor>"), Sym("slot"), K("Symbol(slot)")}
KeyPaths == {<<>>} \cup {<<p>> : p \in PathKeys} \cup {<<p, q>> : p, q \in PathKeys}
TrapOps == {"apply", "construct"}

(* C33: two different sequences of property keys followed from the module  *)
(* root, and a call and a construct at one node, never give the same       *)
(* redirect-lookup string; a handler fires only for the kind of operation  *)
(* it was registered for.                                                  *)
C33_PathsInjective ==
    /\ \A s1 \in KeyPaths, s2 \in KeyPaths, op1 \in TrapOps, op2 \in TrapOps :
          LookupString(op1, PathOf("<electron>", s1)) = LookupString(op2, PathOf("<electron>", s2))
             => (s1 = s2 /\ op1 = op2)
    /\ \A f \in lastOp.fired :
          /\ f.handler = "BrowserWindowHandler" => f.op = "construct"
          /\ f.handler = "setApplicationMenuHandler" => f.op = "apply"

-----------------------------------------------------------------------------
(* main.cjs: the '<electron>.BrowserWindow.<constructor>' redirect and the *)
(* options it hands to the underlying constructor                          *)

PRELOAD_JS_PATH == "core/preload/preload.cjs"
SlackPreload == "slack/preload.js"

(* The options foreign code may pass *)
ObjectOptions ==
    {Options("object", width, FALSE, "unset", "", "unset") : width \in {"unset", "800"}}
    \cup {Options("object", width, TRUE, devTools, preload, contextIsolation) :
            width \in {"unset", "800"}, devTools \in {"unset", "false", "true"},
            preload \in {"", SlackPreload}, contextIsolation \in {"unset", "true"}}
PassedOptions ==
    ObjectOptions \cup {EmptyOptions("undefined"), EmptyOptions("string"), EmptyOptions("null")}

(* The handler up to its Reflect.construct that leaves devTools as passed *)
BrowserWindowOptionsKeepingDevTools(options) ==
    LET given == IF options.kind # "object" THEN EmptyOptions("object") ELSE options
    IN  [given EXCEPT !.webPreferences = TRUE, !.preload = PRELOAD_JS_PATH]

(* The handler up to its Reflect.construct: the options it constructs with *)
(* (typeof null is 'object', so null is kept and reading its               *)
(* webPreferences throws)                                                  *)
BrowserWindowOptions(options) ==
    LET given == IF options.kind # "object" THEN EmptyOptions("object") ELSE options
    IN  [given EXCEPT !.webPreferences = TRUE,        \* options.webPreferences = {}
                      !.devTools = "true",
                      !.preload = PRELOAD_JS_PATH]
HandlerThrows(options) == options.kind = "null"

(* originalPreloadContents after the handler: the contents of the preload  *)
(* passed, null if it cannot be read, unchanged if none was passed         *)
CachedPreload(options, readable, before) ==
    IF HandlerThrows(options) \/ options.kind # "object" \/ options.preload = "" THEN before
    ELSE IF readable THEN "contents of " \o options.preload
    ELSE "null"

(* What the handler does for a window, in the order it does it: the       *)
(* preload is read only if one was passed                                  *)
HandlerSteps(options) ==
    <<"devTools = true">>
    \o (IF options.kind = "object" /\ options.preload # "" THEN <<"readFileSync">> ELSE <<>>)
    \o <<"preload = PRELOAD_JS_PATH", "Reflect.construct", "on did-finish-load">>
(* A window just constructed: its page has not finished loading, no        *)
(* 'did-finish-load' listener of it is running, nothing was injected, its   *)
(* renderer has no 'taut:start-plugins' call pending and has received no   *)
(* delivery (received: the windows whose calls the deliveries answered)    *)
Window(options) ==
    [steps |-> HandlerSteps(options), loaded |-> FALSE, handlers |-> 0, injected |-> {},
     asking |-> FALSE, received |-> {}]

(* new BrowserWindow(options) on require('electron').BrowserWindow *)
NewBrowserWindow(w, options, readable) ==
    /\ Len(windows) < MaxWindows
    /\ proxies[w].log = "<electron>.BrowserWindow"
    /\ LET r == Construct(proxies, heap, Px(w), TheArg)
           constructed == ~HandlerThrows(options) /\ r.out.k = "ret"
       IN  /\ lastWindow' = [passed |-> options,
                             effective |-> IF constructed THEN BrowserWindowOptions(options)
                                           ELSE EmptyOptions("undefined"),
                             constructed |-> constructed,
                             threw |-> ~constructed]
           /\ BROWSER' = IF constructed THEN r.out.v ELSE BROWSER
           /\ windows' = IF constructed THEN Append(windows, Window(options)) ELSE windows
           /\ current' = IF constructed THEN Len(windows) + 1 ELSE current
    /\ originalPreloadContents' = CachedPreload(options, readable, originalPreloadContents)
    /\ UNCHANGED <<heap, proxies, lastOp, directHeap, nOps, windowRest,
                   managerVars, mainVars, patchVars>>

WindowStep(ws) ==
    /\ windows' = ws
    /\ UNCHANGED <<originalPreloadContents, lastWindow, current, proxyVars, windowRest,
                   managerVars, mainVars, patchVars>>

(* The page of window w finishes loading: webContents emits                *)
(* 'did-finish-load' and the listener starts                               *)
DidFinishLoad(w) ==
    /\ ~windows[w].loaded
    /\ WindowStep([windows EXCEPT ![w].loaded = TRUE, ![w].handlers = @ + 1])

(* The listener of window w has read client.js, if there is one, and runs  *)
(* BROWSER?.webContents.executeJavaScript(clientJs)                        *)
InjectClient(w, exists) ==
    /\ windows[w].handlers > 0
    /\ LET done == [windows EXCEPT ![w].handlers = @ - 1]
       IN  WindowStep(IF exists /\ BROWSER # Undef /\ current # 0
                      THEN [done EXCEPT ![current].injected =
                               @ \cup {IF windows[current].loaded THEN "loaded" ELSE "loading"}]
                      ELSE done)

InitWindow ==
    /\ \E b1 \in {"ret", "throw"} :
          heap = InitHeap((oBrowserWindow :> b1))
    /\ proxies = TrapGet(_load(<<>>, "electron").px, heap, 1, K("BrowserWindow"), Px(1)).px
    /\ lastOp = NoOp
    /\ directHeap = heap
    /\ BROWSER = Undef
    /\ nOps = 0
    /\ InitManager
    /\ InitMain
    /\ NoFiles
    /\ InitPatch
    /\ InitAux

NextWindow ==
    \/ \E w \in Wrappers, options \in PassedOptions, readable \in BOOLEAN :
          NewBrowserWindow(w, options, readable)
    \/ \E w \in DOMAIN windows : DidFinishLoad(w)
    \/ \E w \in DOMAIN windows, exists \in BOOLEAN : InjectClient(w, exists)

SpecWindow == InitWindow /\ [][NextWindow]_vars

(* The options other than devTools that the caller passed are in effect    *)
(* as passed                                                               *)
WidthKept == lastWindow.effective.width = lastWindow.passed.width
ContextIsolationKept ==
    lastWindow.effective.contextIsolation = lastWindow.passed.contextIsolation
PreloadKept ==
    lastWindow.passed.preload # "" => lastWindow.effective.preload = lastWindow.passed.preload

(* C18 as stated: a window constructed through the wrapped module with     *)
(* devTools unset has devTools true in effect, and every other option the  *)
(* caller passed is in effect as passed.                                   *)
C18_OnlyDevToolsAsStated ==
    (lastWindow.constructed /\ lastWindow.passed.devTools = "unset") =>
        /\ lastWindow.effective.devTools = "true"
        /\ WidthKept
        /\ ContextIsolationKept
        /\ PreloadKept

(* C18 amended: such a window has devTools true in effect and              *)
(* webPreferences.preload set to Taut's preload script, whatever preload   *)
(* the caller passed; every other option the caller passed is in effect as *)
(* passed.                                                                 *)
C18_OnlyDevTools ==
    (lastWindow.constructed /\ lastWindow.passed.devTools = "unset") =>
        /\ lastWindow.effective.devTools = "true"
        /\ lastWindow.effective.preload = PRELOAD_JS_PATH
        /\ WidthKept
        /\ ContextIsolationKept

(* C18 witness: a window was constructed from options with a width, a      *)
(* preload and contextIsolation but no devTools                            *)
C18_Witness ==
    /\ lastWindow.constructed
    /\ lastWindow.passed = Options("object", "800", TRUE, "unset", SlackPreload, "true")
    /\ lastWindow.effective.devTools = "true"
    /\ BROWSER = Obj(oInstance)

(* The place of a step among the steps of a window, 0 if it was not taken *)
StepAt(w, step) ==
    IF \E i \in DOMAIN windows[w].steps : windows[w].steps[i] = step
    THEN CHOOSE i \in DOMAIN windows[w].steps : windows[w].steps[i] = step
    ELSE 0

(* C29: for every window the redirect constructed, the original preload    *)
(* was read before the preload path was replaced, the path was replaced    *)
(* before the underlying constructor ran, and client.js was injected into  *)
(* the window only once its page had finished loading.                     *)
C29_ReadThenReplaceThenInject ==
    \A w \in DOMAIN windows :
        /\ StepAt(w, "readFileSync") < StepAt(w, "preload = PRELOAD_JS_PATH")
        /\ StepAt(w, "preload = PRELOAD_JS_PATH") < StepAt(w, "Reflect.construct")
        /\ "loading" \notin windows[w].injected

-----------------------------------------------------------------------------
(* start() and stop() of one plugin instance: the base class TautPlugin    *)
(* (core/Plugin.ts, with a start() that does nothing), IdvStatus           *)
(* (plugins/IdvStatus.ts) and ShinigamiEyes. The page is abstracted to its *)
(* sender buttons taken together: whether the plugin's data attribute      *)
(* marks them, whether they carry its decoration (classes and title, or    *)
(* the emoji prefix) and its hover listeners.                              *)
PluginClasses == {"TautPlugin", "IdvStatus", "ShinigamiEyes"}

(* IdvStatus.injectStyles() *)
injectStyles(i, p) ==
    IF i.stylesElement THEN [i |-> i, p |-> p]
    ELSE [i |-> [i EXCEPT !.stylesElement = TRUE], p |-> [p EXCEPT !.styles = TRUE]]

(* IdvStatus.processIdvUsers(): renderIdv on every sender button. A status *)
(* found in idvCache is applied before any other task runs, one that has   *)
(* to be fetched leaves the continuation of renderIdv waiting              *)
processIdvUsers(i, p) ==
    IF ~p.buttons THEN [i |-> i, p |-> p]
    ELSE IF p.marked /\ (p.decorated \/ ~i.cached) THEN [i |-> i, p |-> p]
    ELSE IF i.cached
         THEN [i |-> i, p |-> [p EXCEPT !.marked = TRUE, !.decorated = TRUE]]
         ELSE [i |-> [i EXCEPT !.awaiting = @ \cup {"render"}],
               p |-> [p EXCEPT !.marked = TRUE]]

(* ShinigamiEyes.extractSlackUsers(): renderTrust on every sender button   *)
(* not yet marked; the hover listeners go to users of a known trust level  *)
extractSlackUsers(i, p) ==
    IF ~p.buttons \/ p.marked THEN p
    ELSE [p EXCEPT !.marked = TRUE, !.decorated = TRUE, !.listeners = i.trustLevels]

(* The callback start() of ShinigamiEyes passes to                         *)
(* initializeTrustLevels().then                                            *)
Initialized(i, p) ==
    [i |-> [i EXCEPT !.observer = TRUE], p |-> extractSlackUsers(i, p)]

(* ShinigamiEyes.hideTooltip() *)
hideTooltip(i, p) ==
    IF i.currentTooltip
    THEN [i |-> [i EXCEPT !.currentTooltip = FALSE], p |-> [p EXCEPT !.tooltip = FALSE]]
    ELSE [i |-> i, p |-> p]
(* document.body.removeChild throws for a node that is not a child of body *)
HideTooltipThrows(i, p) == i.currentTooltip /\ ~p.tooltip

(* start(), by class *)
StartOf(i, p) ==
    IF i.cls = "IdvStatus"
    THEN LET s == injectStyles(i, p)
             r == processIdvUsers(s.i, s.p)
         IN  [i |-> [r.i EXCEPT !.observer = TRUE], p |-> r.p]
    ELSE IF i.cls = "ShinigamiEyes"
    THEN IF ~i.apiToken THEN [i |-> i, p |-> p]
         ELSE IF i.cached THEN Initialized([i EXCEPT !.trustLevels = TRUE], p)
         ELSE [i |-> [i EXCEPT !.awaiting = @ \cup {"init"}], p |-> p]
    ELSE [i |-> i, p |-> p]

(* stop(), by class *)
StopOfIdvStatus(i, p) ==
    [i |-> [i EXCEPT !.observer = FALSE, !.stylesElement = FALSE],
     p |-> [p EXCEPT !.styles = IF i.stylesElement THEN FALSE ELSE @,
                     !.decorated = IF p.marked THEN FALSE ELSE @,
                     !.marked = FALSE],
     threw |-> FALSE]
StopOfShinigamiEyes(i, p) ==
    IF HideTooltipThrows(i, p)
    THEN [i |-> [i EXCEPT !.observer = FALSE], p |-> p, threw |-> TRUE]
    ELSE LET h == hideTooltip([i EXCEPT !.observer = FALSE], p)
         IN  [i |-> [h.i EXCEPT !.trustLevels = FALSE],
              p |-> [h.p EXCEPT !.decorated = IF p.marked THEN FALSE ELSE @,
                                !.listeners = IF p.marked THEN FALSE ELSE @,
                                !.marked = FALSE],
              threw |-> FALSE]
StopOfTautPlugin(i, p) == [i |-> i, p |-> p, threw |-> FALSE]
StopOf(i, p) ==
    IF i.cls = "IdvStatus" THEN StopOfIdvStatus(i, p)
    ELSE IF i.cls = "ShinigamiEyes" THEN StopOfShinigamiEyes(i, p)
    ELSE StopOfTautPlugin(i, p)

(* What an instance is when stop() is called on it *)
StateOf(i) ==
    IF ~i.started THEN "neverStarted" ELSE IF i.stopped THEN "stopped" ELSE "started"

StopStep(i, p) ==
    /\ instance' = i
    /\ page' = p
    /\ UNCHANGED <<lastStop, stopRest, proxyVars, managerVars, mainVars, patchVars>>

(* The manager calls start() once on an instance it constructed *)
PluginStart ==
    /\ ~instance.started
    /\ ~instance.stopped
    /\ LET r == StartOf([instance EXCEPT !.started = TRUE], page)
       IN  StopStep(r.i, r.p)

PluginStop ==
    /\ lastStop.n < MaxStops
    /\ LET r == StopOf(instance, page)
       IN  /\ instance' = [r.i EXCEPT !.stopped = TRUE]
           /\ page' = r.p
           /\ lastStop' = [n |-> lastStop.n + 1, on |-> StateOf(instance),
                           threw |-> r.threw,
                           before |-> Observed(instance, page),
                           after |-> Observed(r.i, r.p)]
    /\ UNCHANGED <<stopRest, proxyVars, managerVars, mainVars, patchVars>>

(* fetchTrustLevelsFromAPI() ends, with the trust levels or with an error  *)
(* it catches, and the callback of start() runs                            *)
InitResolved(ok) ==
    /\ "init" \in instance.awaiting
    /\ LET i == [instance EXCEPT !.awaiting = @ \ {"init"},
                                 !.trustLevels = IF ok THEN TRUE ELSE @]
           p == IF ok THEN extractSlackUsers(i, [page EXCEPT !.marked = FALSE,
                                                             !.decorated = FALSE])
                ELSE page
           r == Initialized(i, p)
       IN  StopStep(r.i, r.p)

(* fetchIdvStatus() ends and renderIdv goes on to decorate the button *)
RenderResolved ==
    /\ "render" \in instance.awaiting
    /\ StopStep([instance EXCEPT !.awaiting = @ \ {"render"}],
                [page EXCEPT !.decorated = TRUE])

(* A message arrives: the page gets sender buttons, and a connected        *)
(* observer runs its callback                                              *)
NewMessage ==
    /\ ~page.buttons
    /\ LET p == [page EXCEPT !.buttons = TRUE]
       IN  IF ~instance.observer THEN StopStep(instance, p)
           ELSE IF instance.cls = "IdvStatus"
           THEN LET r == processIdvUsers(instance, p) IN StopStep(r.i, r.p)
           ELSE StopStep(instance, extractSlackUsers(instance, p))

(* handleTrustHover on a button that has the listener *)
Hover ==
    /\ page.listeners
    /\ ~instance.isLoadingTooltip
    /\ ~instance.currentTooltip
    /\ StopStep([instance EXCEPT !.isLoadingTooltip = TRUE, !.currentTooltip = TRUE,
                                 !.awaiting = @ \cup {"hover"}],
                [page EXCEPT !.tooltip = TRUE])

(* fetchAuditLogs() ends and showAuditLogsTooltip replaces the tooltip *)
HoverResolved ==
    /\ "hover" \in instance.awaiting
    /\ LET h == hideTooltip(instance, page)
       IN  StopStep([h.i EXCEPT !.awaiting = @ \ {"hover"}, !.isLoadingTooltip = FALSE,
                                !.currentTooltip = TRUE],
                    [h.p EXCEPT !.tooltip = TRUE])

(* The pointer leaves the tooltip *)
TooltipLeave ==
    /\ instance.currentTooltip
    /\ LET h == hideTooltip(instance, page) IN StopStep(h.i, h.p)

InitStop ==
    /\ WindowConstructed
    /\ InitManager
    /\ InitMain
    /\ NoFiles
    /\ InitPatch
    /\ NoEvents
    /\ NoSearch
    /\ NoWindow
    /\ NoInstall
    /\ NoLate
    /\ instance \in {PluginInstance(cls, apiToken, cached) :
                        cls \in PluginClasses, apiToken \in BOOLEAN, cached \in BOOLEAN}
    /\ page \in {Page(buttons) : buttons \in BOOLEAN}
    /\ lastStop = NoStopYet

NextStop ==
    \/ PluginStart
    \/ PluginStop
    \/ \E ok \in BOOLEAN : InitResolved(ok)
    \/ RenderResolved
    \/ NewMessage
    \/ Hover
    \/ HoverResolved
    \/ TooltipLeave

SpecStop == InitStop /\ [][NextStop]_vars

(* C20: stop() on an instance that is already stopped or was never         *)
(* started raises no exception and leaves the page and the fields of the   *)
(* instance as they were.                                                  *)
C20_StopIdempotent ==
    lastStop.on \in {"neverStarted", "stopped"} =>
        /\ ~lastStop.threw
        /\ lastStop.after = lastStop.before

(* stop() has been called on a ShinigamiEyes instance and nothing it       *)
(* started is still pending                                                *)
StoppedAndSettled ==
    /\ instance.cls = "ShinigamiEyes"
    /\ instance.stopped
    /\ instance.awaiting = {}

(* What the plugin puts on the sender buttons *)
Decoration(p) == <<p.marked, p.decorated, p.listeners>>

(* C36: once stop() has been called on a ShinigamiEyes instance and all    *)
(* pending asynchronous work has completed, the instance holds no          *)
(* connected MutationObserver and no step other than a further stop()      *)
(* changes what the plugin put on the page; this includes a stop() called  *)
(* before the initialization begun by start() has finished.                *)
C36_StoppedStaysStopped ==
    /\ [](StoppedAndSettled => ~instance.observer)
    /\ [][(StoppedAndSettled /\ lastStop' = lastStop)
             => Decoration(page') = Decoration(page)]_vars

-----------------------------------------------------------------------------
(* cli/patch.js: install() moves the config directory of older versions to *)
(* its new place (macOS) and then runs copyJsToConfigDir().                *)
Versions == {"v1", "v2"}
IsEmpty(dir) == dir = [NoDir EXCEPT !.exists = TRUE]

(* fs.rename(old, configDir): a directory replaces only a missing or an    *)
(* empty directory, any other case is an error, which install() ignores    *)
Renames(old, dir) == old.exists /\ (~dir.exists \/ IsEmpty(dir))
Rename(old, dir) ==
    IF Renames(old, dir) THEN [old |-> NoDir, dir |-> old] ELSE [old |-> old, dir |-> dir]

(* The default file is copied whatever the directory holds *)
copyJsToConfigDirAlways(dir, version) ==
    [dir EXCEPT !.exists = TRUE, !.core = version, !.plugins = version,
                !.userPlugins = IF @ = "absent" THEN "empty" ELSE @,
                !.config = "default", !.userCss = "default"]

(* copyJsToConfigDir() *)
copyJsToConfigDir(dir, version) ==
    [dir EXCEPT !.exists = TRUE,
                !.core = version,                                       \* rm, mkdir, cp
                !.plugins = version,                                    \* rm, mkdir, cp
                !.userPlugins = IF @ = "absent" THEN "empty" ELSE @,    \* !existsSync: mkdir
                !.config = IF @ = "absent" THEN "default" ELSE @,       \* !existsSync: copyFile
                !.userCss = IF @ = "absent" THEN "default" ELSE @]      \* !existsSync: copyFile

(* install() of the given version, on macOS or elsewhere *)
install(version, darwin) ==
    /\ lastInstall.n < MaxInstalls
    /\ LET moved == IF darwin THEN Rename(oldConfigDir, configDir)
                    ELSE [old |-> oldConfigDir, dir |-> configDir]
           after == copyJsToConfigDir(moved.dir, version)
       IN  /\ configDir' = after
           /\ oldConfigDir' = moved.old
           /\ lastInstall' = [n |-> lastInstall.n + 1, version |-> version,
                              before |-> configDir, old |-> oldConfigDir, after |-> after]
    /\ UNCHANGED <<installRest, proxyVars, managerVars, mainVars, patchVars>>

(* The user saves config.jsonc or user.css, adds a plugin of their own or  *)
(* edits a built-in one                                                    *)
UserWrites(entry) ==
    /\ configDir.exists
    /\ configDir[entry] \notin {"absent", "mine", "edited"}
    /\ configDir' = [configDir EXCEPT ![entry] = IF entry = "plugins" THEN "edited" ELSE "mine"]
    /\ UNCHANGED <<oldConfigDir, lastInstall, installRest, proxyVars, managerVars,
                   mainVars, patchVars>>

InitInstall ==
    /\ WindowConstructed
    /\ InitManager
    /\ InitMain
    /\ NoFiles
    /\ InitPatch
    /\ NoEvents
    /\ NoSearch
    /\ NoLate
    /\ NoWindow
    /\ NoStop
    /\ configDir \in {NoDir, [NoDir EXCEPT !.exists = TRUE],
                      Dir(TRUE, "v1", "v1", "empty", "default", "default"),
                      Dir(TRUE, "v1", "v1", "mine", "mine", "absent"),
                      Dir(TRUE, "absent", "absent", "absent", "mine", "mine")}
    /\ oldConfigDir \in {NoDir, Dir(TRUE, "v1", "edited", "mine", "mine", "mine")}
    /\ lastInstall = NoInstallYet

NextInstall ==
    \/ \E version \in Versions, darwin \in BOOLEAN : install(version, darwin)
    \/ \E entry \in {"plugins", "userPlugins", "config", "userCss"} : UserWrites(entry)

SpecInstall == InitInstall /\ [][NextInstall]_vars

UserEntries == {"userPlugins", "config", "userCss"}
DefaultOf(entry) == IF entry = "userPlugins" THEN "empty" ELSE "default"

(* C21: install() leaves an existing config.jsonc, an existing user.css    *)
(* and an existing user-plugins/ of the config directory as they are; it   *)
(* replaces core/ and plugins/ by those of the installed version, and an   *)
(* entry that did not exist is the default one afterwards, or the one of   *)
(* the older config directory where that directory was moved in.           *)
C21_UserFilesKept ==
    lastInstall.n > 0 =>
        /\ lastInstall.after.core = lastInstall.version
        /\ lastInstall.after.plugins = lastInstall.version
        /\ \A entry \in UserEntries :
              LET was == lastInstall.before[entry]
                  is == lastInstall.after[entry]
              IN  IF was # "absent" THEN is = was
                  ELSE is \in {DefaultOf(entry), lastInstall.old[entry]}
C21_Witness ==
    /\ lastInstall.n > 0
    /\ lastInstall.before.config = "mine"
    /\ lastInstall.before.userCss = "mine"
    /\ lastInstall.before.userPlugins = "mine"
    /\ lastInstall.before.plugins = "edited"
    /\ lastInstall.after.plugins = lastInstall.version
    /\ lastInstall.after.config = "mine"

-----------------------------------------------------------------------------
(* Plugin-file changes and saves of config.jsonc while the program runs:   *)
(* the directory watchers' deliveries and the config watcher's messages    *)

InitRace ==
    /\ WindowConstructed
    /\ InitManager
    /\ InitMain
    /\ InitPatch
    /\ InitAux
    /\ files = {File(PLUGINS_DIR, "foo.ts", "ok")}
    /\ configFile \in {TautConfig(CfgOn, JUndefined), TautConfig(CfgOff, CfgOn)}

NextRace ==
    \/ StartPlugins
    \/ \E s \in DOMAIN starts : StartInitEsbuild(s)
    \/ \E s \in DOMAIN starts : StartReadConfig(s)
    \/ \E s \in DOMAIN starts : StartScan(s)
    \/ \E s \in DOMAIN starts : StartBundle(s)
    \/ \E s \in DOMAIN starts : StartExecute(s)
    \/ \E s \in DOMAIN starts : StartSendUserCss(s)
    \/ OnUserCssChanged
    \/ OnConfigChange
    \/ \E contents \in ConfigFiles : SaveConfig(contents)
    \/ ConfigFileChanged
    \/ \E f \in files : FileChanged(f)
    \/ \E e \in DOMAIN events : WatchEnter(e)
    \/ \E e \in DOMAIN events : WatchBundle(e)
    \/ \E e \in DOMAIN events : WatchExecute(e)

SpecRace == InitRace /\ [][NextRace]_vars

(* Nothing is in flight: every start-plugins run and every watch callback  *)
(* is over, every save has been handled and every message received         *)
Quiet ==
    /\ Started
    /\ AllHandled
    /\ handlers = 0
    /\ sent = <<>>

(* C24: once nothing is in flight, the config of each loaded plugin        *)
(* instance in the renderer is the main process's current config for that *)
(* name.                                                                   *)
C24_ConfigConverges ==
    Quiet => \A name \in DOMAIN plugins :
                /\ plugins[name].config = PluginConfigOf(config, name)
                /\ plugins[name].instance.config = PluginConfigOf(config, name)
-----------------------------------------------------------------------------
(* The application menu.  main.cjs holds the unwrapped module (line 8,     *)
(* required before Module._load is replaced), installs its own menu with   *)
(* it and registers a redirect that does nothing; Slack then reaches       *)
(* Menu.setApplicationMenu through require('electron').                    *)

TautMenu == Prim("tautMenu")

(* What Electron has installed as the application menu *)
applicationMenu == PropOf(heap, oMenu, K("applicationMenu")).val

(* electron.Menu.setApplicationMenu(electron.Menu.buildFromTemplate([...])) *)
(* on the unwrapped module, with Electron's function storing its argument  *)
StartupMenu ==
    RawApply(<<>>, InitHeap(oSetApplicationMenu :> "menu"),
             oSetApplicationMenu, Obj(oMenu), TautMenu).h

InitMenu ==
    /\ heap = StartupMenu
    /\ proxies = <<>>
    /\ lastOp = NoOp
    /\ directHeap = heap
    /\ BROWSER = Undef
    /\ nOps = 0
    /\ InitManager
    /\ InitMain
    /\ NoFiles
    /\ InitPatch
    /\ InitAux

MenuKeys == {K("Menu"), K("setApplicationMenu")} \cup InheritedKeys
MenuStep == nOps < MaxMenuOps /\ nOps' = nOps + 1

(* require('electron') *)
MenuLoad ==
    /\ MenuStep
    /\ UNCHANGED <<managerVars, mainVars, patchVars, auxVars>>
    /\ LET r == _load(proxies, "electron")
       IN  /\ Len(r.px) <= MaxMenuProxies
           /\ proxies' = r.px
           /\ lastOp' = [NoOp EXCEPT !.op = "load", !.wrapArg = oldLoad("electron"),
                                     !.via = Ret(r.val), !.direct = Ret(oldLoad("electron"))]
    /\ UNCHANGED <<heap, directHeap, BROWSER>>

(* w[p] *)
MenuGet(w, p) ==
    /\ MenuStep
    /\ UNCHANGED <<managerVars, mainVars, patchVars, auxVars>>
    /\ LET r == TrapGet(proxies, heap, w, p, Px(w))
           target == proxies[w].target
           d == Get(proxies, heap, target, p, target)
       IN  /\ Len(r.px) <= MaxMenuProxies
           /\ proxies' = r.px
           /\ lastOp' = [NoOp EXCEPT !.op = "get", !.log = proxies[w].log,
                                     !.wrapArg = d.val,
                                     !.via = Ret(r.val), !.direct = Ret(d.val)]
    /\ UNCHANGED <<heap, directHeap, BROWSER>>

(* thisArg.w(arg): the apply trap of w runs with thisArg as this *)
MenuApply(w, thisArg, arg) ==
    /\ MenuStep
    /\ UNCHANGED <<managerVars, mainVars, patchVars, auxVars>>
    /\ IsCallable(proxies, heap, Px(w))
    /\ LET r == TrapApply(proxies, heap, w, thisArg, arg)
       IN  /\ heap' = r.h
           /\ lastOp' = [NoOp EXCEPT !.op = "apply", !.log = proxies[w].log,
                                     !.lookup = proxies[w].log,
                                     !.via = r.out, !.fired = r.fired]
    /\ UNCHANGED <<proxies, directHeap, BROWSER>>

NextMenu ==
    \/ MenuLoad
    \/ \E w \in Wrappers, p \in MenuKeys : MenuGet(w, p)
    \/ \E w \in Wrappers, t \in ThisValues : MenuApply(w, t, TheArg)

SpecMenu == InitMenu /\ [][NextMenu]_vars

(* C30: the underlying Menu.setApplicationMenu runs once, at startup on    *)
(* the unwrapped module; every later call of Menu.setApplicationMenu made  *)
(* through the wrapped module runs the redirect handler instead, so the    *)
(* installed menu stays the one Taut installed.                            *)
C30_MenuSetOnce ==
    /\ applicationMenu = TautMenu
    /\ (lastOp.op = "apply" /\ lastOp.log = PathSetApplicationMenu)
          => Fired("setApplicationMenuHandler", "apply", PathSetApplicationMenu)
                \in lastOp.fired
-----------------------------------------------------------------------------
(* Several windows and the renderer that asks.  client.js, once injected   *)
(* into a window, calls TautBridge.startPlugins(); the handler of          *)
(* 'taut:start-plugins' takes no event argument and, after its awaits,     *)
(* sends through the global BROWSER.                                       *)

(* PluginManager.init() in the renderer of window w:                       *)
(* ipcRenderer.invoke('taut:start-plugins')                                *)
InvokeStartPlugins(w) ==
    /\ windows[w].injected # {}
    /\ ~windows[w].asking
    /\ WindowStep([windows EXCEPT ![w].asking = TRUE])

(* The handler running for the call of window w has bundled a plugin and   *)
(* sends it: await BROWSER.webContents.executeJavaScript(code); the config *)
(* and user.css pushes read BROWSER in the same way                        *)
SendToBrowser(w) ==
    /\ windows[w].asking
    /\ BROWSER # Undef
    /\ current # 0
    /\ WindowStep([windows EXCEPT ![w].asking = FALSE,
                                  ![current].received = @ \cup {w}])

NextSender ==
    \/ NextWindow
    \/ \E w \in DOMAIN windows : InvokeStartPlugins(w)
    \/ \E w \in DOMAIN windows : SendToBrowser(w)

SpecSender == InitWindow /\ [][NextSender]_vars

(* C34: whatever number of windows was constructed, what the handler sends *)
(* for a renderer's 'taut:start-plugins' call arrives in the window of     *)
(* that renderer and in no other.                                          *)
C34_SentToTheAsker ==
    \A w \in DOMAIN windows : windows[w].received \subseteq {w}
-----------------------------------------------------------------------------
(* webpack.tsx: component patch chain.  A component type is written as the *)
(* sequence of what wraps it, outermost first: <<"Tabs">> is the function  *)
(* component Tabs, <<"memo", "Tabs">> is React.memo(Tabs), <<"orig">> \o t *)
(* is the originalElementObject whose originalType is t, and <<R>> \o t is *)
(* what replacer R returned when called with t.                            *)

Replacers == {"R1", "R2"}
PatchTargets == {<<"Tabs">>, <<"memo", "Tabs">>}
ElementTypes == PatchTargets \cup {<<"orig">> \o t : t \in PatchTargets}
(* props is null, an object without __original, or one with __original    *)
ElementProps == {"null", "plain", "marked"}

RECURSIVE getOriginalComponent(_)
getOriginalComponent(component) ==
    IF Head(component) \in {"memo", "forward_ref"}
    THEN getOriginalComponent(Tail(component))
    ELSE component

isOriginalElementObject(element) == Head(element) = "orig"

(* getElementName(element), with the displayName the reducer gives to what *)
(* a replacer returns                                                      *)
RECURSIVE getElementName(_)
getElementName(element) ==
    IF Head(element) = "orig" THEN "Component"
    ELSE IF Head(element) \in {"memo", "forward_ref"} THEN getElementName(Tail(element))
    ELSE IF Head(element) \in Replacers THEN "Patched(" \o getElementName(Tail(element)) \o ")"
    ELSE Head(element)

(* elementReplacements.get(key) *)
MapGet(m, key) == IF key \in DOMAIN m THEN m[key] ELSE <<>>
(* elementReplacements.set(key, list) *)
MapSet(m, key, list) == [k \in (DOMAIN m) \cup {key} |-> IF k = key THEN list ELSE m[k]]

(* elementReplacers.reduce((currentType, replacer) => replacer(currentType), initial) *)
RECURSIVE Reduce(_, _)
Reduce(elementReplacers, initial) ==
    IF elementReplacers = <<>> THEN initial
    ELSE <<elementReplacers[Len(elementReplacers)]>>
         \o Reduce(SubSeq(elementReplacers, 1, Len(elementReplacers) - 1), initial)

Created(type, props, instantiated, invoked) ==
    [type |-> type, props |-> props, instantiated |-> instantiated,
     propsAfter |-> IF props = "marked" THEN "plain" ELSE props,
     invoked |-> invoked, displayName |-> getElementName(instantiated),
     at |-> Len(patchLog)]

(* The createElement proxy without its test of __original *)
createElementIgnoringMarker(m, type, props) ==
    IF isOriginalElementObject(type) THEN Created(type, props, Tail(type), <<>>)
    ELSE IF MapGet(m, getOriginalComponent(type)) # <<>>
         THEN Created(type, props,
                      Reduce(MapGet(m, getOriginalComponent(type)), <<"orig">> \o type),
                      MapGet(m, getOriginalComponent(type)))
         ELSE Created(type, props, type, <<>>)

(* React.createElement = new Proxy(React.createElement, { apply ... }) *)
createElement(m, type, props) ==
    LET elementReplacers == MapGet(m, getOriginalComponent(type))
    IN  IF isOriginalElementObject(type) THEN Created(type, props, Tail(type), <<>>)
        ELSE IF props # "marked" /\ elementReplacers # <<>>
             THEN Created(type, props, Reduce(elementReplacers, <<"orig">> \o type),
                          elementReplacers)
             ELSE Created(type, props, type, <<>>)

(* replacements.indexOf(replacement); splice(index, 1) *)
RemoveFirst(replacements, replacement) ==
    IF \E i \in DOMAIN replacements : replacements[i] = replacement
    THEN LET index == CHOOSE i \in DOMAIN replacements :
                         /\ replacements[i] = replacement
                         /\ \A j \in 1..(i - 1) : replacements[j] # replacement
         IN  SubSeq(replacements, 1, index - 1)
             \o SubSeq(replacements, index + 1, Len(replacements))
    ELSE replacements

(* unpatchComponent(replacement) *)
unpatchComponent(m, replacement) ==
    LET kept == {k \in DOMAIN m : RemoveFirst(m[k], replacement) # <<>>}
    IN  [k \in kept |-> RemoveFirst(m[k], replacement)]

PatchOp(op, original, replacement, dirtied) ==
    [op |-> op, original |-> original, replacement |-> replacement, dirtied |-> dirtied]

(* patchComponent(original, replacement) *)
Patched(original, replacement) ==
    /\ elementReplacements' =
          MapSet(elementReplacements, original,
                 Append(MapGet(elementReplacements, original), replacement))
    /\ patchLog' = Append(patchLog, PatchOp("patchComponent", original, replacement, TRUE))
    /\ UNCHANGED <<lastCreate, proxyVars, auxVars, managerVars, mainVars>>
PatchComponent(original, replacement) ==
    /\ Len(patchLog) < MaxPatchOps
    /\ Patched(original, replacement)

(* A call of the function patchComponent returned for replacement, or of   *)
(* unpatchComponent(replacement)                                           *)
Unpatched(replacement) ==
    /\ elementReplacements' = unpatchComponent(elementReplacements, replacement)
    /\ patchLog' = Append(patchLog, PatchOp("unpatch", <<>>, replacement, FALSE))
    /\ UNCHANGED <<lastCreate, proxyVars, auxVars, managerVars, mainVars>>
Unpatch(replacement) ==
    /\ Len(patchLog) < MaxPatchOps
    /\ Unpatched(replacement)

(* React.createElement(type, props) *)
CreateElement(type, props) ==
    /\ lastCreate' = createElement(elementReplacements, type, props)
    /\ UNCHANGED <<elementReplacements, patchLog, proxyVars, auxVars, managerVars, mainVars>>

InitPatchSpec ==
    /\ WindowConstructed
    /\ InitManager
    /\ InitMain
    /\ NoFiles
    /\ InitPatch
    /\ InitAux

NextPatch ==
    \/ \E original \in PatchTargets, replacement \in Replacers :
          PatchComponent(original, replacement)
    \/ \E replacement \in Replacers : Unpatch(replacement)
    \/ \E type \in ElementTypes, props \in ElementProps : CreateElement(type, props)

SpecPatch == InitPatchSpec /\ [][NextPatch]_vars

(* The last element was created after every patch and unpatch made so far *)
CreatedNow(type) ==
    /\ lastCreate.type = type
    /\ lastCreate.at = Len(patchLog)
    /\ lastCreate.props # "marked"

(* C5: after patchComponent(C, R1) and then patchComponent(C, R2), an      *)
(* element of type C is instantiated as R2(R1(o)), o standing for the      *)
(* original C; once R1's unpatch function has been called it is            *)
(* instantiated as R2(o), and R1 is not invoked.                           *)
C5_Composition ==
    \A C \in PatchTargets :
        /\ (/\ patchLog = <<PatchOp("patchComponent", C, "R1", TRUE),
                            PatchOp("patchComponent", C, "R2", TRUE)>>
            /\ CreatedNow(C))
           => lastCreate.instantiated = <<"R2", "R1", "orig">> \o C
        /\ (/\ patchLog = <<PatchOp("patchComponent", C, "R1", TRUE),
                            PatchOp("patchComponent", C, "R2", TRUE),
                            PatchOp("unpatch", <<>>, "R1", FALSE)>>
            /\ CreatedNow(C))
           => /\ lastCreate.instantiated = <<"R2", "orig">> \o C
              /\ lastCreate.invoked = <<"R2">>

(* C6 as stated: a createElement call whose props carry __original is      *)
(* created with the given type unchanged, invokes no replacer, and hands   *)
(* the framework props without the marker.                                 *)
C6_BypassAsStated ==
    lastCreate.props = "marked"
    => /\ lastCreate.instantiated = lastCreate.type
       /\ lastCreate.invoked = <<>>
       /\ lastCreate.propsAfter = "plain"

(* C6 amended: the same, except that when the given type is the            *)
(* originalElementObject the chain hands to replacers, the element is      *)
(* created with the original type that object stands for.                  *)
C6_Bypass ==
    lastCreate.props = "marked"
    => /\ lastCreate.instantiated =
             IF isOriginalElementObject(lastCreate.type) THEN Tail(lastCreate.type)
                                                         ELSE lastCreate.type
       /\ lastCreate.invoked = <<>>
       /\ lastCreate.propsAfter = "plain"

(* C6 witness: an element of a patched component was created with the      *)
(* marker                                                                  *)
C6_Witness ==
    /\ lastCreate.props = "marked"
    /\ lastCreate.at = Len(patchLog)
    /\ ~isOriginalElementObject(lastCreate.type)
    /\ MapGet(elementReplacements, getOriginalComponent(lastCreate.type)) # <<>>


(* The last patchComponent or unpatch call made *)
LastPatchOp == patchLog[Len(patchLog)]
InvokedNow == {lastCreate.invoked[i] : i \in DOMAIN lastCreate.invoked}

(* C26: once patchComponent(X, R) has been called, an element created      *)
(* next whose type unwraps to the same component as X is instantiated      *)
(* through R, whether or not X was passed in memo-wrapped form.            *)
C26_KeyedByUnwrapped ==
    \A type \in PatchTargets :
        (/\ patchLog # <<>>
         /\ LastPatchOp.op = "patchComponent"
         /\ CreatedNow(type)
         /\ getOriginalComponent(type) = getOriginalComponent(LastPatchOp.original))
        => LastPatchOp.replacement \in InvokedNow

(* C28: every patchComponent call and every unpatch call runs the          *)
(* cache-invalidation walk dirtyMemoizationCache() before it returns.      *)
C28_BothInvalidate == \A i \in DOMAIN patchLog : patchLog[i].dirtied

-----------------------------------------------------------------------------
(* The replacement map under patchComponent and unpatch calls alone *)
NextChain ==
    \/ \E original \in PatchTargets, replacement \in Replacers :
          Len(patchLog) < MaxChainOps /\ Patched(original, replacement)
    \/ \E replacement \in Replacers :
          Len(patchLog) < MaxChainOps /\ Unpatched(replacement)

SpecChain == InitPatchSpec /\ [][NextChain]_vars

(* The replacers registered for a component so far, in registration order *)
Registered(original) ==
    LET ops == SelectSeq(patchLog, LAMBDA o : o.op = "patchComponent" /\ o.original = original)
    IN  [i \in DOMAIN ops |-> ops[i].replacement]
(* list can be had from of by leaving elements out *)
RECURSIVE IsSubsequence(_, _)
IsSubsequence(list, of) ==
    IF list = <<>> THEN TRUE
    ELSE IF of = <<>> THEN FALSE
    ELSE IF Head(list) = Head(of) THEN IsSubsequence(Tail(list), Tail(of))
    ELSE IsSubsequence(list, Tail(of))

(* The step is a second call of the unpatch function called last *)
SecondUnpatch ==
    /\ patchLog # <<>>
    /\ LastPatchOp.op = "unpatch"
    /\ patchLog' = Append(patchLog, LastPatchOp)

(* C27: the replacement map never holds a component with an empty         *)
(* replacer list, every list holds its remaining replacers in registration *)
(* order, and calling the same unpatch function a second time changes      *)
(* nothing.                                                                *)
C27_ChainWellFormed ==
    /\ [](\A original \in DOMAIN elementReplacements :
             /\ elementReplacements[original] # <<>>
             /\ IsSubsequence(elementReplacements[original], Registered(original)))
    /\ [][SecondUnpatch => elementReplacements' = elementReplacements]_vars

-----------------------------------------------------------------------------
(* webpack.tsx: findExport, findByProps, findComponent.  An export value   *)
(* is a component type as above, or <<"object", p1, p2, ...>> for an       *)
(* object with the properties p1, p2, ..., <<"function">> for a function   *)
(* without displayName, or <<"string">> for a primitive.                   *)

Module(exp, children) == [exp |-> exp, children |-> children]
ReactModule == Module(<<"object", "createElement", "Component">>,
                      <<(<<"function">>), (<<"function">>)>>)
MemoModule == Module(<<"object", "default">>, <<(<<"memo", "Tabs">>)>>)
TabsModule == Module(<<"Tabs">>, <<>>)
VersionModule == Module(<<"object", "VERSION">>, <<(<<"string">>)>>)
Modules == {ReactModule, MemoModule, TabsModule, VersionModule}
(* allExports(): the modules of the loaded chunks, in chunk order *)
Caches == UNION {[1..n -> Modules] : n \in 0..MaxModules}

(* getComponentName(component), "" for null *)
RECURSIVE getComponentName(_)
getComponentName(component) ==
    IF Head(component) \in {"object", "function", "string"} THEN ""
    ELSE IF Head(component) \in {"memo", "forward_ref"} THEN getComponentName(Tail(component))
    ELSE Head(component)

(* prop in exp: a TypeError when exp is a primitive *)
In(key, exp) ==
    IF Head(exp) = "string" THEN "throw"
    ELSE IF Head(exp) = "object" /\ \E i \in 2..Len(exp) : exp[i] = key THEN "true"
    ELSE "false"

(* The filters: findByProps' func, findComponent's func and a caller's own *)
ByProps(props) == <<"props">> \o props
ByName(name) == <<"name", name>>
Filters == {ByProps(<<"createElement", "Component">>), ByProps(<<"VERSION">>),
            ByProps(<<"render">>), ByName("Tabs"), ByName("Sidebar")}
(* filter(exp): "true", "false" or "throw" *)
Filter(filter, exp) ==
    IF Head(filter) = "name"
    THEN IF getComponentName(exp) = filter[2] THEN "true" ELSE "false"
    ELSE IF \E i \in 2..Len(filter) : In(filter[i], exp) = "throw" THEN "throw"
    ELSE IF \A i \in 2..Len(filter) : In(filter[i], exp) = "true" THEN "true"
    ELSE "false"

(* The values findExport tests, in the order it tests them: each module's  *)
(* export, then the values of its own keys                                 *)
RECURSIVE Candidates(_)
Candidates(exports) ==
    IF exports = <<>> THEN <<>>
    ELSE <<Head(exports).exp>> \o Head(exports).children \o Candidates(Tail(exports))

Found(k, vs) == [k |-> k, vs |-> vs]

(* findExport that raises when single-match mode finds nothing *)
findExportRaising(exports, filter, all) ==
    LET matches == SelectSeq(Candidates(exports), LAMBDA c : Filter(filter, c) = "true")
    IN  IF all THEN Found("array", Dedupe(matches))
        ELSE IF matches # <<>> THEN Found("value", <<matches[1]>>)
        ELSE Found("throw", <<>>)

(* The values up to the first one on which the filter throws *)
RECURSIVE UntilThrow(_, _)
UntilThrow(filter, cs) ==
    IF cs = <<>> \/ Filter(filter, Head(cs)) = "throw" THEN <<>>
    ELSE <<Head(cs)>> \o UntilThrow(filter, Tail(cs))

(* findExport whose search ends when the filter throws *)
findExportAborting(exports, filter, all) ==
    LET matches == SelectSeq(UntilThrow(filter, Candidates(exports)),
                             LAMBDA c : Filter(filter, c) = "true")
    IN  IF all THEN Found("array", Dedupe(matches))
        ELSE IF matches # <<>> THEN Found("value", <<matches[1]>>)
        ELSE Found("null", <<>>)

(* findExport(filter, all): a filter that throws on a value skips it *)
findExport(exports, filter, all) ==
    LET matches == SelectSeq(Candidates(exports), LAMBDA c : Filter(filter, c) = "true")
    IN  IF all THEN Found("array", Dedupe(matches))        \* [...results]
        ELSE IF matches # <<>> THEN Found("value", <<matches[1]>>)
        ELSE Found("null", <<>>)

(* findByProps(props, all) *)
findByProps(exports, props, all) == findExport(exports, ByProps(props), all)

(* findComponent(name, all) *)
findComponent(exports, name, all) ==
    LET result == findExport(exports, ByName(name), all)
    IN  IF all
        THEN Found("array", [i \in DOMAIN result.vs |-> getOriginalComponent(result.vs[i])])
        ELSE IF result.k = "null" THEN Found("throw", <<>>)
        ELSE Found("value", <<getOriginalComponent(result.vs[1])>>)

Find(fn, filter, all, found) ==
    /\ lastFind' = [fn |-> fn, filter |-> filter, all |-> all, k |-> found.k, vs |-> found.vs]
    /\ UNCHANGED <<webpackCache, searchRest, proxyVars, managerVars, mainVars, patchVars>>

FindExport(filter, all) ==
    Find("findExport", filter, all, findExport(webpackCache, filter, all))
FindByProps(props, all) ==
    Find("findByProps", ByProps(props), all, findByProps(webpackCache, props, all))
FindComponent(name, all) ==
    Find("findComponent", ByName(name), all, findComponent(webpackCache, name, all))

InitFind ==
    /\ WindowConstructed
    /\ InitManager
    /\ InitMain
    /\ NoFiles
    /\ InitPatch
    /\ NoEvents
    /\ NoWindow
    /\ NoStop
    /\ NoInstall
    /\ NoLate
    /\ webpackCache \in Caches
    /\ lastFind = NoFind

NextFind ==
    \/ \E filter \in Filters, all \in BOOLEAN : FindExport(filter, all)
    \/ \E filter \in Filters, all \in BOOLEAN :
          Head(filter) = "props" /\ FindByProps(Tail(filter), all)
    \/ \E filter \in Filters, all \in BOOLEAN :
          Head(filter) = "name" /\ FindComponent(filter[2], all)

SpecFind == InitFind /\ [][NextFind]_vars

(* No value the search tests satisfies the filter *)
NoMatch ==
    \A i \in DOMAIN Candidates(webpackCache) :
        Filter(lastFind.filter, Candidates(webpackCache)[i]) # "true"

(* C17: a search that finds no match raises a not-found error in           *)
(* single-match mode, whichever of findExport, findByProps and             *)
(* findComponent it is, and returns an empty collection in all-match mode. *)
C17_NotFoundRaises ==
    (lastFind.fn # "none" /\ NoMatch) =>
        IF lastFind.all THEN lastFind.k = "array" /\ lastFind.vs = <<>>
        ELSE lastFind.k = "throw"

(* C17 amended: a search that finds no match returns an empty collection   *)
(* in all-match mode; in single-match mode findComponent raises its        *)
(* "Could not find component" error, while findExport and findByProps      *)
(* return null.                                                            *)
C17_NotFound ==
    (lastFind.fn # "none" /\ NoMatch) =>
        IF lastFind.all THEN lastFind.k = "array" /\ lastFind.vs = <<>>
        ELSE IF lastFind.fn = "findComponent" THEN lastFind.k = "throw"
        ELSE lastFind.k = "null"

(* C17 witness: findComponent in single-match mode found no component of   *)
(* the name among exports that hold components of another name, and raised *)
C17_Witness ==
    /\ lastFind.fn = "findComponent"
    /\ ~lastFind.all
    /\ lastFind.filter = ByName("Sidebar")
    /\ \E i \in DOMAIN webpackCache : webpackCache[i] = MemoModule
    /\ lastFind.k = "throw"

(* The values the last search tested, in order, and whether the i-th one   *)
(* satisfies its filter; a filter that throws on a value does not          *)
Tested == Candidates(webpackCache)
Matches(i) == Filter(lastFind.filter, Tested[i]) = "true"

(* C37: findExport tests each export and then each of that export's own    *)
(* properties, in order; in single mode it returns the first value that    *)
(* matches (null if none does), in all mode every matching value exactly   *)
(* once and nothing else; a value on which the filter throws does not      *)
(* match and does not end the search.                                      *)
C37_FirstOrEveryMatch ==
    lastFind.fn = "findExport" =>
        IF lastFind.all
        THEN /\ lastFind.k = "array"
             /\ \A i \in DOMAIN Tested :
                   Matches(i) => Cardinality({j \in DOMAIN lastFind.vs :
                                                 lastFind.vs[j] = Tested[i]}) = 1
             /\ \A j \in DOMAIN lastFind.vs :
                   \E i \in DOMAIN Tested : Matches(i) /\ Tested[i] = lastFind.vs[j]
        ELSE IF \E i \in DOMAIN Tested : Matches(i)
        THEN /\ lastFind.k = "value"
             /\ \E i \in DOMAIN Tested :
                   /\ Matches(i)
                   /\ lastFind.vs = <<Tested[i]>>
                   /\ \A j \in 1..(i - 1) : ~Matches(j)
        ELSE lastFind.k = "null"

(* C37 witness: a single-mode findExport returned the React export, which  *)
(* comes after a string on which the filter threw                          *)
C37_Witness ==
    /\ lastFind.fn = "findExport"
    /\ ~lastFind.all
    /\ webpackCache = <<VersionModule, ReactModule>>
    /\ lastFind.filter = ByProps(<<"createElement", "Component">>)
    /\ Filter(lastFind.filter, Tested[2]) = "throw"
    /\ lastFind.vs = <<ReactModule.exp>>

-----------------------------------------------------------------------------
(* deepEqual over JSON values as parseJSONC returns them: null, booleans,  *)
(* numbers, arrays and objects, nested one level                           *)

JsonPrims == {JNull, JBool(TRUE), JNum(1)}
JsonKeys == {"a", "b"}
SeqsUpTo(S, n) == UNION {[1..k -> S] : k \in 0..n}
DistinctKeys(members) ==
    \A i \in DOMAIN members, j \in DOMAIN members :
        members[i].key = members[j].key => i = j
JsonArrays(S) == {JArr(vals) : vals \in SeqsUpTo(S, MaxJsonLen)}
JsonObjects(S) ==
    {JObj(members) :
        members \in {m \in SeqsUpTo({Member(k, v) : k \in JsonKeys, v \in S}, MaxJsonLen) :
                        DistinctKeys(m)}}
FlatValues == JsonPrims \cup JsonArrays(JsonPrims) \cup JsonObjects(JsonPrims)
JsonValues ==
    FlatValues \cup {JArr(<<v>>) : v \in FlatValues}
               \cup {JObj(<<Member("a", v)>>) : v \in FlatValues}

(* deepEqual(left, right) on the two values drawn *)
CallDeepEqual ==
    /\ ~lastEqual.called
    /\ lastEqual' = [lastEqual EXCEPT !.called = TRUE,
                                      !.result = deepEqual(lastEqual.left, lastEqual.right)]
    /\ UNCHANGED <<proxyVars, managerVars, mainVars, patchVars, earlyVars, resourceVars>>

InitEqual ==
    /\ WindowConstructed
    /\ InitManager
    /\ InitMain
    /\ NoFiles
    /\ InitPatch
    /\ NoEvents
    /\ NoSearch
    /\ NoWindow
    /\ NoStop
    /\ NoInstall
    /\ NoResources
    /\ \E left \in JsonValues, right \in JsonValues :
          lastEqual = [NoEqual EXCEPT !.left = left, !.right = right]

NextEqual == CallDeepEqual

SpecEqual == InitEqual /\ [][NextEqual]_vars

(* Structural equality of two JSON values *)
KeySet(o) == {o.items[i].key : i \in DOMAIN o.items}
RECURSIVE StructurallyEqual(_, _)
StructurallyEqual(a, b) ==
    IF a.j # b.j THEN FALSE
    ELSE IF a.j = "array"
    THEN /\ Len(a.items) = Len(b.items)
         /\ \A i \in DOMAIN a.items : StructurallyEqual(a.items[i].val, b.items[i].val)
    ELSE IF a.j = "object"
    THEN /\ KeySet(a) = KeySet(b)
         /\ \A k \in KeySet(a) : StructurallyEqual(JGet(a, k), JGet(b, k))
    ELSE a = b

(* C38: deepEqual(a, b) is true exactly when a and b are structurally      *)
(* equal JSON values: equal primitives, arrays of equal length with equal  *)
(* elements in the same order, or objects with the same keys and equal     *)
(* values whatever the order of the keys; it is reflexive and symmetric.   *)
C38_StructuralEquality ==
    lastEqual.called =>
        /\ lastEqual.result = StructurallyEqual(lastEqual.left, lastEqual.right)
        /\ deepEqual(lastEqual.left, lastEqual.left)
        /\ deepEqual(lastEqual.right, lastEqual.left) = lastEqual.result

(* C38 witness: two objects with the same members in different key order,  *)
(* one value an array, were found equal                                    *)
C38_Witness ==
    /\ lastEqual.called
    /\ lastEqual.left = JObj(<<Member("a", JNum(1)), Member("b", JNull)>>)
    /\ lastEqual.right = JObj(<<Member("b", JNull), Member("a", JNum(1))>>)
    /\ lastEqual.result

-----------------------------------------------------------------------------
(* cli/patch.js: install() and uninstall() over the resources directory.   *)
(* Every step that touches the file system may fail; a run is given the    *)
(* step that fails in it (failAt) and the renames of a rollback that fail  *)
(* (failing, by their position in renamesDone).                            *)
DirEntries == {"unpacked", "unpackedBackup"}
FailPoints == {"none", "preconditions", "moveShim", "restoreAsar", "restoreUnpacked",
               "rmTmp", "flipFuses", "backupAsar", "backupUnpacked", "buildShim",
               "packShim", "rmTmpDir", "copyJs"}

(* What a function leaves behind: the directory, whether it threw, where *)
Ok(d) == [dir |-> d, threw |-> FALSE, failed |-> "none"]
Threw(d, step) == [dir |-> d, threw |-> TRUE, failed |-> step]

(* fs.rename(from, to): the source must exist; a file replaces a file, a   *)
(* directory replaces no directory that has entries                        *)
CanRename(d, from, to) ==
    /\ d[from] # "absent"
    /\ from \in DirEntries => d[to] = "absent"
Renamed(d, from, to) == [d EXCEPT ![to] = d[from], ![from] = "absent"]

(* for (const [from, to] of renamesDone.reverse()) try rename catch {} *)
RECURSIVE Rollback(_, _, _)
Rollback(d, renamesDone, failing) ==
    IF renamesDone = <<>> THEN d
    ELSE LET n == Len(renamesDone)
             from == renamesDone[n][1]
             to == renamesDone[n][2]
             after == IF CanRename(d, from, to) /\ n \notin failing
                      THEN Renamed(d, from, to) ELSE d
         IN  Rollback(after, SubSeq(renamesDone, 1, n - 1), failing)

(* isPatched(), isBroken() *)
isPatched(d) == d.backupAsar # "absent"
isBroken(d) == d.backupAsar # "absent" /\ d.appAsar = "absent"

(* getAsarInfo(app.asar): null for a missing or unreadable archive *)
getAsarInfo(d) ==
    CASE d.appAsar = "shim" -> [name |-> "taut-shim", patchVersion |-> 2]
      [] d.appAsar = "oldShim" -> [name |-> "taut-shim", patchVersion |-> 1]
      [] d.appAsar = "original" -> [name |-> "slack-desktop", patchVersion |-> 0]
      [] OTHER -> [name |-> "null", patchVersion |-> 0]

(* backup() *)
backup(d, failAt, failing) ==
    IF ~CanRename(d, "appAsar", "backupAsar") \/ failAt = "backupAsar"
    THEN Threw(Rollback(d, <<>>, failing), "backupAsar")
    ELSE LET d1 == Renamed(d, "appAsar", "backupAsar")
             renamesDone == << <<"backupAsar", "appAsar">> >>
         IN  IF d1.unpacked = "absent" THEN Ok(d1)
             ELSE IF CanRename(d1, "unpacked", "unpackedBackup") /\ failAt # "backupUnpacked"
             THEN Ok(Renamed(d1, "unpacked", "unpackedBackup"))
             ELSE Threw(Rollback(d1, renamesDone, failing), "backupUnpacked")

(* buildShim(): the shim is written to a temporary directory and packed   *)
(* into app.asar; a pack that fails may leave part of the archive          *)
buildShim(d, failAt) ==
    CASE failAt = "buildShim" -> Threw(d, "buildShim")
      [] failAt = "packShim" -> Threw([d EXCEPT !.appAsar = "partial"], "packShim")
      [] failAt = "rmTmpDir" -> Threw([d EXCEPT !.appAsar = "shim"], "rmTmpDir")
      [] OTHER -> Ok([d EXCEPT !.appAsar = "shim"])

(* removePatch() that leaves app.asar.tmp where it is *)
removePatchKeepingTmp(d, failAt, failing) ==
    IF ~isPatched(d) \/ d.appAsar = "absent" THEN Ok(d)
    ELSE Ok([d EXCEPT !.appAsarTmp = d.appAsar, !.appAsar = d.backupAsar,
                      !.backupAsar = "absent",
                      !.unpacked = IF d.unpackedBackup # "absent" THEN d.unpackedBackup ELSE @,
                      !.unpackedBackup = "absent"])

(* removePatch(): no binary backup (.bak) is ever written by this code, so *)
(* the first rename is skipped                                             *)
removePatch(d, failAt, failing) ==
    IF ~isPatched(d) THEN Ok(d)
    ELSE IF ~CanRename(d, "appAsar", "appAsarTmp") \/ failAt = "moveShim"
    THEN Threw(Rollback(d, <<>>, failing), "moveShim")
    ELSE LET d1 == Renamed(d, "appAsar", "appAsarTmp")
             done1 == << <<"appAsarTmp", "appAsar">> >>
         IN  IF ~CanRename(d1, "backupAsar", "appAsar") \/ failAt = "restoreAsar"
             THEN Threw(Rollback(d1, done1, failing), "restoreAsar")
             ELSE LET d2 == Renamed(d1, "backupAsar", "appAsar")
                      renamesDone == Append(done1, <<"appAsar", "backupAsar">>)
                  IN  IF /\ d2.unpackedBackup # "absent"
                         /\ (~CanRename(d2, "unpackedBackup", "unpacked")
                                \/ failAt = "restoreUnpacked")
                      THEN Threw(Rollback(d2, renamesDone, failing), "restoreUnpacked")
                      ELSE LET d3 == IF d2.unpackedBackup # "absent"
                                     THEN Renamed(d2, "unpackedBackup", "unpacked") ELSE d2
                           IN  IF failAt = "rmTmp"
                               THEN Threw(Rollback(d3, renamesDone, failing), "rmTmp")
                               ELSE Ok([d3 EXCEPT !.appAsarTmp = "absent"])

(* applyPatch(): resign() logs what fails and throws nothing *)
applyPatch(d, failAt, failing) ==
    LET removed == IF isPatched(d) THEN removePatch(d, failAt, failing) ELSE Ok(d)
    IN  IF removed.threw THEN removed
        ELSE IF failAt = "flipFuses" THEN Threw(removed.dir, "flipFuses")
        ELSE LET backedUp == backup(removed.dir, failAt, failing)
             IN  IF backedUp.threw THEN backedUp ELSE buildShim(backedUp.dir, failAt)

(* checkPatchPreconditions(): process.exit(1) on a directory that cannot   *)
(* be written, a broken installation or a Slack that does not close        *)
checkPatchPreconditions(d, failAt) == failAt # "preconditions" /\ ~isBroken(d)

Ran(op, outcome) ==
    [n |-> lastRun.n + 1,
     last |-> [op |-> op, threw |-> outcome.threw, failed |-> outcome.failed,
               before |-> resources],
     previous |-> lastRun.last]

(* install() *)
installAt(failAt, failing, darwin) ==
    /\ lastRun.n < MaxRuns
    /\ LET asarInfo == getAsarInfo(resources)
           needsPatch == asarInfo.name # "taut-shim" \/ asarInfo.patchVersion # 2
           patched == IF ~needsPatch THEN Ok(resources)
                      ELSE IF ~checkPatchPreconditions(resources, failAt)
                      THEN Threw(resources, "preconditions")
                      ELSE applyPatch(resources, failAt, failing)
           outcome == IF ~patched.threw /\ failAt = "copyJs"
                      THEN Threw(patched.dir, "copyJs") ELSE patched
           moved == IF darwin THEN Rename(oldConfigDir, configDir)
                    ELSE [old |-> oldConfigDir, dir |-> configDir]
       IN  /\ resources' = outcome.dir
           /\ lastRun' = Ran("install", outcome)
           /\ IF patched.threw THEN UNCHANGED <<configDir, oldConfigDir>>
              ELSE /\ oldConfigDir' = moved.old
                   /\ configDir' = IF outcome.threw THEN moved.dir
                                   ELSE copyJsToConfigDir(moved.dir, "v2")
    /\ UNCHANGED <<lastInstall, lastEqual, events, searchVars, windowVars, stopVars, proxyVars, managerVars,
                   mainVars, patchVars>>

(* uninstall() *)
uninstall(failAt, failing) ==
    /\ lastRun.n < MaxRuns
    /\ LET outcome == IF ~checkPatchPreconditions(resources, failAt)
                      THEN Threw(resources, "preconditions")
                      ELSE removePatch(resources, failAt, failing)
       IN  /\ resources' = outcome.dir
           /\ lastRun' = Ran("uninstall", outcome)
    /\ UNCHANGED <<installVars, lastEqual, events, searchVars, windowVars, stopVars, proxyVars, managerVars,
                   mainVars, patchVars>>

(* An installation that was never patched, one patched by an older         *)
(* installer and one patched by this one                                   *)
InitResources ==
    /\ WindowConstructed
    /\ InitManager
    /\ InitMain
    /\ NoFiles
    /\ InitPatch
    /\ NoEvents
    /\ NoSearch
    /\ NoWindow
    /\ NoStop
    /\ NoInstall
    /\ lastEqual = NoEqual
    /\ \E unpacked \in {"absent", "original"} :
          resources \in {Fresh(unpacked),
                         Resources("oldShim", "original", "absent", unpacked, "absent"),
                         Resources("shim", "original", "absent", unpacked, "absent")}
    /\ lastRun = NoRunYet

NextResources ==
    \/ \E failAt \in FailPoints, failing \in SUBSET {1, 2}, darwin \in BOOLEAN :
          installAt(failAt, failing, darwin)
    \/ \E failAt \in FailPoints, failing \in SUBSET {1, 2} : uninstall(failAt, failing)

SpecResources == InitResources /\ [][NextResources]_vars

(* The directory as Slack's installer leaves it and as a complete patch    *)
(* leaves it                                                               *)
OriginalState(d) ==
    d.appAsar = "original" /\ d.backupAsar = "absent" /\ d.unpackedBackup = "absent"
CompletePatch(d) ==
    d.appAsar = "shim" /\ d.backupAsar = "original" /\ d.unpacked = "absent"
ApplySteps == {"backupAsar", "backupUnpacked", "buildShim", "packShim", "rmTmpDir"}

(* C39: when a step of applying the patch fails (backing up, building the  *)
(* shim), the resources directory is left in its original unpatched state  *)
(* or in a complete patched state, and never broken, that is with          *)
(* _app.asar present while app.asar is missing.                            *)
C39_NeverLeftBroken ==
    (lastRun.last.op = "install" /\ lastRun.last.threw /\ lastRun.last.failed \in ApplySteps)
        => /\ ~isBroken(resources)
           /\ OriginalState(resources) \/ CompletePatch(resources)

(* An installation that is not patched, and the app.asar.unpacked that     *)
(* belongs to it                                                           *)
UnpatchedInstallation(d) == d.appAsar = "original" /\ ~isPatched(d)
OriginalUnpacked(d) == IF d.unpacked # "absent" THEN d.unpacked ELSE d.unpackedBackup

(* C40: from an unpatched installation, a successful install followed by a *)
(* successful uninstall leaves app.asar and app.asar.unpacked as the       *)
(* original files and no _app.asar, _app.asar.unpacked or app.asar.tmp.    *)
C40_InstallThenUninstall ==
    (/\ lastRun.last.op = "uninstall" /\ ~lastRun.last.threw
     /\ lastRun.previous.op = "install" /\ ~lastRun.previous.threw
     /\ UnpatchedInstallation(lastRun.previous.before))
        => resources = Fresh(OriginalUnpacked(lastRun.previous.before))
C40_Witness ==
    /\ lastRun.last.op = "uninstall" /\ ~lastRun.last.threw
    /\ lastRun.previous.op = "install" /\ ~lastRun.previous.threw
    /\ lastRun.previous.before = Fresh("original")
    /\ lastRun.last.before = Resources("shim", "original", "absent", "original", "absent")
    /\ resources = Fresh("original")
====
